---------------------------- MODULE Spec2Model ----------------------------
(***************************************************************************)
(* USB Audio-Class descriptor definitions (desc-defs.c) and the decoder   *)
(* that walks them.                                                        *)
(*                                                                         *)
(* desc-defs.c holds the data half: label tables, one field schema per    *)
(* (descriptor kind, protocol generation), the per-kind registries and    *)
(* the "snowflake" rendering functions.  The interpreter that walks a     *)
(* schema over a byte buffer is not part of desc-defs.c; it is modelled   *)
(* from section 4.2 of the specification.  The snowflake functions are    *)
(* modelled from their C text: they return nothing and write to the       *)
(* process-wide stdout with printf.                                        *)
(***************************************************************************)
EXTENDS Integers, Sequences, FiniteSets, TLC

(* ------------------------------ bounds -------------------------------- *)

\* Longest descriptor body handed to one decode call.
MaxBufLen == 18
\* Byte values of the generated buffers are 0 .. ByteMod-1.
ByteMod == 4
\* Largest repetition count of an array whose schema entry names no length field.
MaxFixedCount == 2
\* Largest indent depth handed to a decode call.
MaxIndent == 1

(* --------------------------- C-level helpers -------------------------- *)

\* The C null pointer, as an entry of a label table or of a registry.
NULL == "NULL"

\* ARRAY_LEN(a): number of elements of a C array.
ARRAY_LEN(a) == Len(a)

\* (v >> i) & 0x1
Bit(v, i) == (v \div (2 ^ i)) % 2

\* One entry of a field schema (struct desc), every member at its C default.
Fld(field, size, type) ==
    [ field          |-> field,
      size           |-> size,
      size_field     |-> NULL,
      type           |-> type,
      array          |-> FALSE,
      bits           |-> FALSE,
      length_field1  |-> NULL,
      length_field2  |-> NULL,
      bmcontrol      |-> <<>>,
      bitmap_strings |-> [strings |-> <<>>, count |-> 0],
      number_strings |-> <<>>,
      snowflake      |-> NULL,
      number_postfix |-> NULL ]

\* The terminating entry of every schema: { .field = NULL }.
DescEnd == Fld(NULL, 0, NULL)

(* ---------------- label tables, schemas and registries ---------------- *)

uac1_channel_names ==
    << "Left Front (L)",
       "Right Front (R)",
       "Center Front (C)",
       "Low Frequency Enhancement (LFE)",
       "Left Surround (LS)",
       "Right Surround (RS)",
       "Left of Center (LC)",
       "Right of Center (RC)",
       "Surround (S)",
       "Side Left (SL)",
       "Side Right (SR)",
       "Top (T)" >>

uac2_channel_names ==
    << "Front Left (FL)",
       "Front Right (FR)",
       "Front Center (FC)",
       "Low Frequency Effects (LFE)",
       "Back Left (BL)",
       "Back Right (BR)",
       "Front Left of Center (FLC)",
       "Front Right of Center (FRC)",
       "Back Center (BC)",
       "Side Left (SL)",
       "Side Right (SR)",
       "Top Center (TC)",
       "Top Front Left (TFL)",
       "Top Front Center (TFC)",
       "Top Front Right (TFR)",
       "Top Back Left (TBL)",
       "Top Back Center (TBC)",
       "Top Back Right (TBR)",
       "Top Front Left of Center (TFLC)",
       "Top Front Right of Center (TFRC)",
       "Left Low Frequency Effects (LLFE)",
       "Right Low Frequency Effects (RLFE)",
       "Top Side Left (TSL)",
       "Top Side Right (TSR)",
       "Bottom Center (BC)",
       "Back Left of Center (BLC)",
       "Back Right of Center (BRC)" >>

uac2_interface_header_bmcontrols ==
    << "Latency control",
       NULL >>

desc_audio_1_ac_header ==
    << Fld("bcdADC", 2, "DESC_BCD"),
       Fld("wTotalLength", 2, "DESC_CONSTANT"),
       Fld("bInCollection", 1, "DESC_CONSTANT"),
       [Fld("baInterfaceNr", 1, "DESC_NUMBER") EXCEPT !.array = TRUE],
       DescEnd >>

desc_audio_2_ac_header ==
    << Fld("bcdADC", 2, "DESC_BCD"),
       Fld("bCategory", 1, "DESC_CONSTANT"),
       Fld("wTotalLength", 2, "DESC_NUMBER"),
       [Fld("bmControls", 1, "DESC_BMCONTROL_2") EXCEPT !.bmcontrol = uac2_interface_header_bmcontrols],
       DescEnd >>

desc_audio_ac_header ==
    << "desc_audio_1_ac_header", "desc_audio_2_ac_header", NULL >>

desc_audio_2_ac_effect_unit ==
    << Fld("bUnitID", 1, "DESC_NUMBER"),
       Fld("wEffectType", 2, "DESC_CONSTANT"),
       Fld("bSourceID", 1, "DESC_CONSTANT"),
       [Fld("bmaControls", 4, "DESC_BITMAP") EXCEPT !.array = TRUE],
       Fld("iEffects", 1, "DESC_STR_DESC_INDEX"),
       DescEnd >>

desc_audio_ac_effect_unit ==
    << NULL, "desc_audio_2_ac_effect_unit", NULL >>

uac2_input_term_bmcontrols ==
    << "Copy Protect",
       "Connector",
       "Overload",
       "Cluster",
       "Underflow",
       "Overflow",
       NULL >>

desc_audio_1_ac_input_terminal ==
    << Fld("bTerminalID", 1, "DESC_NUMBER"),
       Fld("wTerminalType", 2, "DESC_TERMINAL_STR"),
       Fld("bAssocTerminal", 1, "DESC_CONSTANT"),
       Fld("bNrChannels", 1, "DESC_NUMBER"),
       [Fld("wChannelConfig", 2, "DESC_BITMAP_STRINGS") EXCEPT !.bitmap_strings = [strings |-> uac1_channel_names, count |-> 12]],
       Fld("iChannelNames", 1, "DESC_STR_DESC_INDEX"),
       Fld("iTerminal", 1, "DESC_STR_DESC_INDEX"),
       DescEnd >>

desc_audio_2_ac_input_terminal ==
    << Fld("bTerminalID", 1, "DESC_NUMBER"),
       Fld("wTerminalType", 2, "DESC_TERMINAL_STR"),
       Fld("bAssocTerminal", 1, "DESC_CONSTANT"),
       Fld("bCSourceID", 1, "DESC_CONSTANT"),
       Fld("bNrChannels", 1, "DESC_NUMBER"),
       [Fld("bmChannelConfig", 4, "DESC_BITMAP_STRINGS") EXCEPT !.bitmap_strings = [strings |-> uac2_channel_names, count |-> 26]],
       Fld("iChannelNames", 1, "DESC_STR_DESC_INDEX"),
       [Fld("bmControls", 2, "DESC_BMCONTROL_2") EXCEPT !.bmcontrol = uac2_input_term_bmcontrols],
       Fld("iTerminal", 1, "DESC_STR_DESC_INDEX"),
       DescEnd >>

desc_audio_ac_input_terminal ==
    << "desc_audio_1_ac_input_terminal", "desc_audio_2_ac_input_terminal", NULL >>

uac2_output_term_bmcontrols ==
    << "Copy Protect",
       "Connector",
       "Overload",
       "Underflow",
       "Overflow",
       NULL >>

desc_audio_1_ac_output_terminal ==
    << Fld("bTerminalID", 1, "DESC_NUMBER"),
       Fld("wTerminalType", 2, "DESC_TERMINAL_STR"),
       Fld("bAssocTerminal", 1, "DESC_NUMBER"),
       Fld("bSourceID", 1, "DESC_NUMBER"),
       Fld("iTerminal", 1, "DESC_STR_DESC_INDEX"),
       DescEnd >>

desc_audio_2_ac_output_terminal ==
    << Fld("bTerminalID", 1, "DESC_NUMBER"),
       Fld("wTerminalType", 2, "DESC_TERMINAL_STR"),
       Fld("bAssocTerminal", 1, "DESC_NUMBER"),
       Fld("bSourceID", 1, "DESC_NUMBER"),
       Fld("bCSourceID", 1, "DESC_NUMBER"),
       [Fld("bmControls", 2, "DESC_BMCONTROL_2") EXCEPT !.bmcontrol = uac2_output_term_bmcontrols],
       Fld("iTerminal", 1, "DESC_STR_DESC_INDEX"),
       DescEnd >>

desc_audio_ac_output_terminal ==
    << "desc_audio_1_ac_output_terminal", "desc_audio_2_ac_output_terminal", NULL >>

uac2_mixer_unit_bmcontrols ==
    << "Cluster",
       "Underflow",
       "Overflow",
       NULL >>

\* A Mixer Unit schema whose bmControls is counted by bNrInPins alone.
desc_audio_1_ac_mixer_unit_pins_only ==
    << Fld("bUnitID", 1, "DESC_NUMBER"),
       Fld("bNrInPins", 1, "DESC_NUMBER"),
       [Fld("baSourceID", 1, "DESC_NUMBER") EXCEPT !.array = TRUE,
          !.length_field1 = "bNrInPins"],
       Fld("bNrChannels", 1, "DESC_NUMBER"),
       [Fld("wChannelConfig", 2, "DESC_BITMAP_STRINGS") EXCEPT !.bitmap_strings = [strings |-> uac1_channel_names, count |-> 12]],
       Fld("iChannelNames", 1, "DESC_STR_DESC_INDEX"),
       [Fld("bmControls", 1, "DESC_BITMAP") EXCEPT !.array = TRUE,
          !.length_field1 = "bNrInPins"],
       Fld("iMixer", 1, "DESC_STR_DESC_INDEX"),
       DescEnd >>

desc_audio_1_ac_mixer_unit ==
    << Fld("bUnitID", 1, "DESC_NUMBER"),
       Fld("bNrInPins", 1, "DESC_NUMBER"),
       [Fld("baSourceID", 1, "DESC_NUMBER") EXCEPT !.array = TRUE,
          !.length_field1 = "bNrInPins"],
       Fld("bNrChannels", 1, "DESC_NUMBER"),
       [Fld("wChannelConfig", 2, "DESC_BITMAP_STRINGS") EXCEPT !.bitmap_strings = [strings |-> uac1_channel_names, count |-> 12]],
       Fld("iChannelNames", 1, "DESC_STR_DESC_INDEX"),
       [Fld("bmControls", 1, "DESC_BITMAP") EXCEPT !.array = TRUE,
          !.bits = TRUE,
          !.length_field1 = "bNrInPins",
          !.length_field2 = "bNrChannels"],
       Fld("iMixer", 1, "DESC_STR_DESC_INDEX"),
       DescEnd >>

\* A UAC2 Mixer Unit schema whose bmMixerControls is counted by bNrInPins alone.
desc_audio_2_ac_mixer_unit_pins_only ==
    << Fld("bUnitID", 1, "DESC_NUMBER"),
       Fld("bNrInPins", 1, "DESC_NUMBER"),
       [Fld("baSourceID", 1, "DESC_NUMBER") EXCEPT !.array = TRUE,
          !.length_field1 = "bNrInPins"],
       Fld("bNrChannels", 1, "DESC_NUMBER"),
       [Fld("bmChannelConfig", 4, "DESC_BITMAP_STRINGS") EXCEPT !.bitmap_strings = [strings |-> uac2_channel_names, count |-> 26]],
       Fld("iChannelNames", 1, "DESC_STR_DESC_INDEX"),
       [Fld("bmMixerControls", 1, "DESC_BITMAP") EXCEPT !.array = TRUE,
          !.length_field1 = "bNrInPins"],
       [Fld("bmControls", 1, "DESC_BMCONTROL_2") EXCEPT !.bmcontrol = uac2_mixer_unit_bmcontrols],
       Fld("iMixer", 1, "DESC_STR_DESC_INDEX"),
       DescEnd >>

desc_audio_2_ac_mixer_unit ==
    << Fld("bUnitID", 1, "DESC_NUMBER"),
       Fld("bNrInPins", 1, "DESC_NUMBER"),
       [Fld("baSourceID", 1, "DESC_NUMBER") EXCEPT !.array = TRUE,
          !.length_field1 = "bNrInPins"],
       Fld("bNrChannels", 1, "DESC_NUMBER"),
       [Fld("bmChannelConfig", 4, "DESC_BITMAP_STRINGS") EXCEPT !.bitmap_strings = [strings |-> uac2_channel_names, count |-> 26]],
       Fld("iChannelNames", 1, "DESC_STR_DESC_INDEX"),
       [Fld("bmMixerControls", 1, "DESC_BITMAP") EXCEPT !.array = TRUE,
          !.bits = TRUE,
          !.length_field1 = "bNrInPins",
          !.length_field2 = "bNrChannels"],
       [Fld("bmControls", 1, "DESC_BMCONTROL_2") EXCEPT !.bmcontrol = uac2_mixer_unit_bmcontrols],
       Fld("iMixer", 1, "DESC_STR_DESC_INDEX"),
       DescEnd >>

desc_audio_ac_mixer_unit ==
    << "desc_audio_1_ac_mixer_unit", "desc_audio_2_ac_mixer_unit", NULL >>

uac2_selector_unit_bmcontrols ==
    << "Selector",
       NULL >>

desc_audio_1_ac_selector_unit ==
    << Fld("bUnitID", 1, "DESC_NUMBER"),
       Fld("bNrInPins", 1, "DESC_NUMBER"),
       [Fld("baSourceID", 1, "DESC_NUMBER") EXCEPT !.array = TRUE,
          !.length_field1 = "bNrInPins"],
       Fld("iSelector", 1, "DESC_STR_DESC_INDEX"),
       DescEnd >>

desc_audio_2_ac_selector_unit ==
    << Fld("bUnitID", 1, "DESC_NUMBER"),
       Fld("bNrInPins", 1, "DESC_NUMBER"),
       [Fld("baSourceID", 1, "DESC_NUMBER") EXCEPT !.array = TRUE,
          !.length_field1 = "bNrInPins"],
       [Fld("bmControls", 1, "DESC_BMCONTROL_2") EXCEPT !.bmcontrol = uac2_selector_unit_bmcontrols],
       Fld("iSelector", 1, "DESC_STR_DESC_INDEX"),
       DescEnd >>

desc_audio_ac_selector_unit ==
    << "desc_audio_1_ac_selector_unit", "desc_audio_2_ac_selector_unit", NULL >>

\* A Processing Unit schema whose bmControls stands before the bControlSize
\* that counts it.
desc_audio_1_ac_processing_unit_size_after ==
    << Fld("bUnitID", 1, "DESC_NUMBER"),
       Fld("wProcessType", 2, "DESC_CONSTANT"),
       Fld("bNrInPins", 1, "DESC_NUMBER"),
       [Fld("baSourceID", 1, "DESC_NUMBER") EXCEPT !.array = TRUE,
          !.length_field1 = "bNrInPins"],
       Fld("bNrChannels", 1, "DESC_NUMBER"),
       [Fld("wChannelConfig", 2, "DESC_BITMAP_STRINGS") EXCEPT !.bitmap_strings = [strings |-> uac1_channel_names, count |-> 12]],
       Fld("iChannelNames", 1, "DESC_STR_DESC_INDEX"),
       [Fld("bmControls", 1, "DESC_BITMAP") EXCEPT !.array = TRUE,
          !.length_field1 = "bControlSize"],
       Fld("bControlSize", 1, "DESC_NUMBER"),
       Fld("iProcessing", 1, "DESC_STR_DESC_INDEX"),
       [Fld("Process-specific", 1, "DESC_BITMAP") EXCEPT !.array = TRUE],
       DescEnd >>

desc_audio_1_ac_processing_unit ==
    << Fld("bUnitID", 1, "DESC_NUMBER"),
       Fld("wProcessType", 2, "DESC_CONSTANT"),
       Fld("bNrInPins", 1, "DESC_NUMBER"),
       [Fld("baSourceID", 1, "DESC_NUMBER") EXCEPT !.array = TRUE,
          !.length_field1 = "bNrInPins"],
       Fld("bNrChannels", 1, "DESC_NUMBER"),
       [Fld("wChannelConfig", 2, "DESC_BITMAP_STRINGS") EXCEPT !.bitmap_strings = [strings |-> uac1_channel_names, count |-> 12]],
       Fld("iChannelNames", 1, "DESC_STR_DESC_INDEX"),
       Fld("bControlSize", 1, "DESC_NUMBER"),
       [Fld("bmControls", 1, "DESC_BITMAP") EXCEPT !.array = TRUE,
          !.length_field1 = "bControlSize"],
       Fld("iProcessing", 1, "DESC_STR_DESC_INDEX"),
       [Fld("Process-specific", 1, "DESC_BITMAP") EXCEPT !.array = TRUE],
       DescEnd >>

desc_audio_2_ac_processing_unit ==
    << Fld("bUnitID", 1, "DESC_NUMBER"),
       Fld("wProcessType", 2, "DESC_CONSTANT"),
       Fld("bNrInPins", 1, "DESC_NUMBER"),
       [Fld("baSourceID", 1, "DESC_NUMBER") EXCEPT !.array = TRUE,
          !.length_field1 = "bNrInPins"],
       Fld("bNrChannels", 1, "DESC_NUMBER"),
       [Fld("bmChannelConfig", 4, "DESC_BITMAP_STRINGS") EXCEPT !.bitmap_strings = [strings |-> uac2_channel_names, count |-> 26]],
       Fld("iChannelNames", 1, "DESC_STR_DESC_INDEX"),
       Fld("bControlSize", 1, "DESC_NUMBER"),
       [Fld("bmControls", 2, "DESC_BITMAP") EXCEPT !.array = TRUE,
          !.length_field1 = "bControlSize"],
       Fld("iProcessing", 1, "DESC_STR_DESC_INDEX"),
       [Fld("Process-specific", 1, "DESC_BITMAP") EXCEPT !.array = TRUE],
       DescEnd >>

desc_audio_ac_processing_unit ==
    << "desc_audio_1_ac_processing_unit", "desc_audio_2_ac_processing_unit", NULL >>

uac_feature_unit_bmcontrols ==
    << "Mute",
       "Volume",
       "Bass",
       "Mid",
       "Treble",
       "Graphic Equalizer",
       "Automatic Gain",
       "Delay",
       "Bass Boost",
       "Loudness",
       "Input gain",
       "Input gain pad",
       "Phase inverter",
       NULL >>

\* A Feature Unit schema whose bmaControls is one byte wide whatever
\* bControlSize says.
desc_audio_1_ac_feature_unit_one_byte ==
    << Fld("bUnitID", 1, "DESC_NUMBER"),
       Fld("bSourceID", 1, "DESC_CONSTANT"),
       Fld("bControlSize", 1, "DESC_NUMBER"),
       [Fld("bmaControls", 1, "DESC_BMCONTROL_1") EXCEPT !.array = TRUE,
          !.bmcontrol = uac_feature_unit_bmcontrols],
       Fld("iFeature", 1, "DESC_STR_DESC_INDEX"),
       DescEnd >>

desc_audio_1_ac_feature_unit ==
    << Fld("bUnitID", 1, "DESC_NUMBER"),
       Fld("bSourceID", 1, "DESC_CONSTANT"),
       Fld("bControlSize", 1, "DESC_NUMBER"),
       [Fld("bmaControls", 0, "DESC_BMCONTROL_1") EXCEPT !.size_field = "bControlSize",
          !.array = TRUE,
          !.bmcontrol = uac_feature_unit_bmcontrols],
       Fld("iFeature", 1, "DESC_STR_DESC_INDEX"),
       DescEnd >>

desc_audio_2_ac_feature_unit ==
    << Fld("bUnitID", 1, "DESC_NUMBER"),
       Fld("bSourceID", 1, "DESC_CONSTANT"),
       [Fld("bmaControls", 4, "DESC_BMCONTROL_2") EXCEPT !.array = TRUE,
          !.bmcontrol = uac_feature_unit_bmcontrols],
       Fld("iFeature", 1, "DESC_STR_DESC_INDEX"),
       DescEnd >>

desc_audio_ac_feature_unit ==
    << "desc_audio_1_ac_feature_unit", "desc_audio_2_ac_feature_unit", NULL >>

uac2_extension_unit_bmcontrols ==
    << "Enable",
       "Cluster",
       "Underflow",
       "Overflow",
       NULL >>

desc_audio_1_ac_extension_unit ==
    << Fld("bUnitID", 1, "DESC_NUMBER"),
       Fld("wExtensionCode", 2, "DESC_CONSTANT"),
       Fld("bNrInPins", 1, "DESC_NUMBER"),
       [Fld("baSourceID", 1, "DESC_NUMBER") EXCEPT !.array = TRUE,
          !.length_field1 = "bNrInPins"],
       Fld("bNrChannels", 1, "DESC_NUMBER"),
       [Fld("wChannelConfig", 2, "DESC_BITMAP_STRINGS") EXCEPT !.bitmap_strings = [strings |-> uac1_channel_names, count |-> 12]],
       Fld("iChannelNames", 1, "DESC_STR_DESC_INDEX"),
       Fld("bControlSize", 1, "DESC_NUMBER"),
       [Fld("bmControls", 1, "DESC_BITMAP") EXCEPT !.array = TRUE,
          !.length_field1 = "bControlSize"],
       Fld("iExtension", 1, "DESC_STR_DESC_INDEX"),
       DescEnd >>

desc_audio_2_ac_extension_unit ==
    << Fld("bUnitID", 1, "DESC_NUMBER"),
       Fld("wExtensionCode", 2, "DESC_CONSTANT"),
       Fld("bNrInPins", 1, "DESC_NUMBER"),
       [Fld("baSourceID", 1, "DESC_NUMBER") EXCEPT !.array = TRUE,
          !.length_field1 = "bNrInPins"],
       Fld("bNrChannels", 1, "DESC_NUMBER"),
       [Fld("bmChannelConfig", 4, "DESC_BITMAP_STRINGS") EXCEPT !.bitmap_strings = [strings |-> uac2_channel_names, count |-> 26]],
       Fld("iChannelNames", 1, "DESC_STR_DESC_INDEX"),
       [Fld("bmControls", 1, "DESC_BMCONTROL_2") EXCEPT !.bmcontrol = uac2_extension_unit_bmcontrols],
       Fld("iExtension", 1, "DESC_STR_DESC_INDEX"),
       DescEnd >>

desc_audio_ac_extension_unit ==
    << "desc_audio_1_ac_extension_unit", "desc_audio_2_ac_extension_unit", NULL >>

\* The Clock Source controls in the other order.
uac2_clock_source_bmcontrols_swapped ==
    << "Clock Validity",
       "Clock Frequency",
       NULL >>

uac2_clock_source_bmcontrols ==
    << "Clock Frequency",
       "Clock Validity",
       NULL >>

uac2_clk_src_bmattr ==
    << "External",
       "Internal fixed",
       "Internal variable",
       "Internal programmable" >>

uac3_clk_src_bmattr ==
    << "External",
       "Internal",
       "(asynchronous)",
       "(synchronized to SOF)" >>

desc_audio_2_ac_clock_source ==
    << Fld("bClockID", 1, "DESC_CONSTANT"),
       [Fld("bmAttributes", 1, "DESC_SNOWFLAKE") EXCEPT !.snowflake = "desc_snowflake_dump_uac2_clk_src_bmattr"],
       [Fld("bmControls", 1, "DESC_BMCONTROL_2") EXCEPT !.bmcontrol = uac2_clock_source_bmcontrols],
       Fld("bAssocTerminal", 1, "DESC_CONSTANT"),
       Fld("iClockSource", 1, "DESC_STR_DESC_INDEX"),
       DescEnd >>

\* A Clock Source registry that gives UAC1 the UAC2 schema.
desc_audio_ac_clock_source_for_uac1 ==
    << "desc_audio_2_ac_clock_source", "desc_audio_2_ac_clock_source", NULL >>

desc_audio_ac_clock_source ==
    << NULL, "desc_audio_2_ac_clock_source", NULL >>

uac2_clock_selector_bmcontrols ==
    << "Clock Selector",
       NULL >>

desc_audio_2_ac_clock_selector ==
    << Fld("bClockID", 1, "DESC_NUMBER"),
       Fld("bNrInPins", 1, "DESC_NUMBER"),
       [Fld("baCSourceID", 1, "DESC_NUMBER") EXCEPT !.array = TRUE,
          !.length_field1 = "bNrInPins"],
       [Fld("bmControls", 1, "DESC_BMCONTROL_2") EXCEPT !.bmcontrol = uac2_clock_selector_bmcontrols],
       Fld("iClockSelector", 1, "DESC_STR_DESC_INDEX"),
       DescEnd >>

desc_audio_ac_clock_selector ==
    << NULL, "desc_audio_2_ac_clock_selector", NULL >>

uac2_clock_multiplier_bmcontrols ==
    << "Clock Numerator",
       "Clock Denominator",
       NULL >>

desc_audio_2_ac_clock_multiplier ==
    << Fld("bClockID", 1, "DESC_CONSTANT"),
       Fld("bCSourceID", 1, "DESC_NUMBER"),
       [Fld("bmControls", 1, "DESC_BMCONTROL_2") EXCEPT !.bmcontrol = uac2_clock_multiplier_bmcontrols],
       Fld("iClockMultiplier", 1, "DESC_STR_DESC_INDEX"),
       DescEnd >>

desc_audio_ac_clock_multiplier ==
    << NULL, "desc_audio_2_ac_clock_multiplier", NULL >>

desc_audio_2_ac_sample_rate_converter ==
    << Fld("bUnitID", 1, "DESC_CONSTANT"),
       Fld("bSourceID", 1, "DESC_CONSTANT"),
       Fld("bCSourceInID", 1, "DESC_CONSTANT"),
       Fld("bCSourceOutID", 1, "DESC_CONSTANT"),
       Fld("iSRC", 1, "DESC_STR_DESC_INDEX"),
       DescEnd >>

desc_audio_ac_sample_rate_converter ==
    << NULL, "desc_audio_2_ac_sample_rate_converter", NULL >>

uac2_as_interface_bmcontrols ==
    << "Active Alternate Setting",
       "Valid Alternate Setting",
       NULL >>

audio_data_format_type_i ==
    << "TYPE_I_UNDEFINED",
       "PCM",
       "PCM8",
       "IEEE_FLOAT",
       "ALAW",
       "MULAW" >>

audio_data_format_type_ii ==
    << "TYPE_II_UNDEFINED",
       "MPEG",
       "AC-3" >>

audio_data_format_type_iii ==
    << "TYPE_III_UNDEFINED",
       "IEC1937_AC-3",
       "IEC1937_MPEG-1_Layer1",
       "IEC1937_MPEG-Layer2/3/NOEXT",
       "IEC1937_MPEG-2_EXT",
       "IEC1937_MPEG-2_Layer1_LS",
       "IEC1937_MPEG-2_Layer2/3_LS" >>

desc_audio_1_as_interface ==
    << Fld("bTerminalLink", 1, "DESC_CONSTANT"),
       [Fld("bDelay", 1, "DESC_NUMBER_POSTFIX") EXCEPT !.number_postfix = " frames"],
       [Fld("wFormatTag", 2, "DESC_SNOWFLAKE") EXCEPT !.snowflake = "desc_snowflake_dump_uac1_as_interface_wformattag"],
       DescEnd >>

desc_audio_2_as_interface ==
    << Fld("bTerminalLink", 1, "DESC_NUMBER"),
       [Fld("bmControls", 1, "DESC_BMCONTROL_2") EXCEPT !.bmcontrol = uac2_as_interface_bmcontrols],
       Fld("bFormatType", 1, "DESC_CONSTANT"),
       [Fld("bmFormats", 4, "DESC_SNOWFLAKE") EXCEPT !.snowflake = "desc_snowflake_dump_uac2_as_interface_bmformats"],
       Fld("bNrChannels", 1, "DESC_NUMBER"),
       [Fld("bmChannelConfig", 4, "DESC_BITMAP_STRINGS") EXCEPT !.bitmap_strings = [strings |-> uac2_channel_names, count |-> 26]],
       Fld("iChannelNames", 1, "DESC_STR_DESC_INDEX"),
       DescEnd >>

desc_audio_as_interface ==
    << "desc_audio_1_as_interface", "desc_audio_2_as_interface", NULL >>

uac1_as_endpoint_bmattributes ==
    << "Sampling Frequency",
       "Pitch",
       "Audio Data Format Control",
       NULL,
       NULL,
       NULL,
       NULL,
       "MaxPacketsOnly" >>

uac2_as_endpoint_bmattributes ==
    << NULL,
       NULL,
       NULL,
       NULL,
       NULL,
       NULL,
       NULL,
       "MaxPacketsOnly" >>

uac2_as_isochronous_audio_data_endpoint_bmcontrols ==
    << "Pitch",
       "Data Overrun",
       "Data Underrun",
       NULL >>

\* The lock delay units with the first two swapped.
uac_as_isochronous_audio_data_endpoint_blockdelayunits_swapped ==
    << "Milliseconds",
       "Undefined",
       "Decoded PCM samples",
       NULL >>

uac_as_isochronous_audio_data_endpoint_blockdelayunits ==
    << "Undefined",
       "Milliseconds",
       "Decoded PCM samples",
       NULL >>

desc_audio_1_as_isochronous_audio_data_endpoint ==
    << [Fld("bmAttributes", 1, "DESC_BITMAP_STRINGS") EXCEPT !.bitmap_strings = [strings |-> uac1_as_endpoint_bmattributes, count |-> 8]],
       [Fld("bLockDelayUnits", 1, "DESC_NUMBER_STRINGS") EXCEPT !.number_strings = uac_as_isochronous_audio_data_endpoint_blockdelayunits],
       Fld("wLockDelay", 2, "DESC_NUMBER"),
       DescEnd >>

desc_audio_2_as_isochronous_audio_data_endpoint ==
    << [Fld("bmAttributes", 1, "DESC_BITMAP_STRINGS") EXCEPT !.bitmap_strings = [strings |-> uac2_as_endpoint_bmattributes, count |-> 8]],
       [Fld("bmControls", 1, "DESC_BMCONTROL_2") EXCEPT !.bmcontrol = uac2_as_isochronous_audio_data_endpoint_bmcontrols],
       [Fld("bLockDelayUnits", 1, "DESC_NUMBER_STRINGS") EXCEPT !.number_strings = uac_as_isochronous_audio_data_endpoint_blockdelayunits],
       Fld("wLockDelay", 2, "DESC_NUMBER"),
       DescEnd >>

desc_audio_as_isochronous_audio_data_endpoint ==
    << "desc_audio_1_as_isochronous_audio_data_endpoint", "desc_audio_2_as_isochronous_audio_data_endpoint", NULL >>

\* Registry arrays, by the name the caller passes (one per descriptor kind).
Kinds ==
    { "desc_audio_ac_header", "desc_audio_ac_effect_unit",
      "desc_audio_ac_input_terminal", "desc_audio_ac_output_terminal",
      "desc_audio_ac_mixer_unit", "desc_audio_ac_selector_unit",
      "desc_audio_ac_processing_unit", "desc_audio_ac_feature_unit",
      "desc_audio_ac_extension_unit", "desc_audio_ac_clock_source",
      "desc_audio_ac_clock_selector", "desc_audio_ac_clock_multiplier",
      "desc_audio_ac_sample_rate_converter", "desc_audio_as_interface",
      "desc_audio_as_isochronous_audio_data_endpoint" }

\* The registry array behind a kind's name.
RegistryOf(kind) ==
    CASE kind = "desc_audio_ac_header" -> desc_audio_ac_header
      [] kind = "desc_audio_ac_effect_unit" -> desc_audio_ac_effect_unit
      [] kind = "desc_audio_ac_input_terminal" -> desc_audio_ac_input_terminal
      [] kind = "desc_audio_ac_output_terminal" -> desc_audio_ac_output_terminal
      [] kind = "desc_audio_ac_mixer_unit" -> desc_audio_ac_mixer_unit
      [] kind = "desc_audio_ac_selector_unit" -> desc_audio_ac_selector_unit
      [] kind = "desc_audio_ac_processing_unit" -> desc_audio_ac_processing_unit
      [] kind = "desc_audio_ac_feature_unit" -> desc_audio_ac_feature_unit
      [] kind = "desc_audio_ac_extension_unit" -> desc_audio_ac_extension_unit
      [] kind = "desc_audio_ac_clock_source" -> desc_audio_ac_clock_source
      [] kind = "desc_audio_ac_clock_selector" -> desc_audio_ac_clock_selector
      [] kind = "desc_audio_ac_clock_multiplier" -> desc_audio_ac_clock_multiplier
      [] kind = "desc_audio_ac_sample_rate_converter" -> desc_audio_ac_sample_rate_converter
      [] kind = "desc_audio_as_interface" -> desc_audio_as_interface
      [] kind = "desc_audio_as_isochronous_audio_data_endpoint" ->
             desc_audio_as_isochronous_audio_data_endpoint

\* The schema a registry entry points to.
DescOf(name) ==
    CASE name = "desc_audio_1_ac_header" -> desc_audio_1_ac_header
      [] name = "desc_audio_2_ac_header" -> desc_audio_2_ac_header
      [] name = "desc_audio_2_ac_effect_unit" -> desc_audio_2_ac_effect_unit
      [] name = "desc_audio_1_ac_input_terminal" -> desc_audio_1_ac_input_terminal
      [] name = "desc_audio_2_ac_input_terminal" -> desc_audio_2_ac_input_terminal
      [] name = "desc_audio_1_ac_output_terminal" -> desc_audio_1_ac_output_terminal
      [] name = "desc_audio_2_ac_output_terminal" -> desc_audio_2_ac_output_terminal
      [] name = "desc_audio_1_ac_mixer_unit" -> desc_audio_1_ac_mixer_unit
      [] name = "desc_audio_2_ac_mixer_unit" -> desc_audio_2_ac_mixer_unit
      [] name = "desc_audio_1_ac_selector_unit" -> desc_audio_1_ac_selector_unit
      [] name = "desc_audio_2_ac_selector_unit" -> desc_audio_2_ac_selector_unit
      [] name = "desc_audio_1_ac_processing_unit" -> desc_audio_1_ac_processing_unit
      [] name = "desc_audio_2_ac_processing_unit" -> desc_audio_2_ac_processing_unit
      [] name = "desc_audio_1_ac_feature_unit" -> desc_audio_1_ac_feature_unit
      [] name = "desc_audio_2_ac_feature_unit" -> desc_audio_2_ac_feature_unit
      [] name = "desc_audio_1_ac_extension_unit" -> desc_audio_1_ac_extension_unit
      [] name = "desc_audio_2_ac_extension_unit" -> desc_audio_2_ac_extension_unit
      [] name = "desc_audio_2_ac_clock_source" -> desc_audio_2_ac_clock_source
      [] name = "desc_audio_2_ac_clock_selector" -> desc_audio_2_ac_clock_selector
      [] name = "desc_audio_2_ac_clock_multiplier" -> desc_audio_2_ac_clock_multiplier
      [] name = "desc_audio_2_ac_sample_rate_converter" ->
             desc_audio_2_ac_sample_rate_converter
      [] name = "desc_audio_1_as_interface" -> desc_audio_1_as_interface
      [] name = "desc_audio_2_as_interface" -> desc_audio_2_as_interface
      [] name = "desc_audio_1_as_isochronous_audio_data_endpoint" ->
             desc_audio_1_as_isochronous_audio_data_endpoint
      [] name = "desc_audio_2_as_isochronous_audio_data_endpoint" ->
             desc_audio_2_as_isochronous_audio_data_endpoint
      [] OTHER -> << DescEnd >>

\* lookup(descriptor_kind, protocol_generation): the registry entry of the
\* generation (0 = UAC1, 1 = UAC2, 2 = UAC3), NULL when the pair has no schema.
lookup(kind, protocol) == RegistryOf(kind)[protocol + 1]

(* ------------------------- snowflake functions ------------------------ *)

\* wFormatTag hex prefix for format type.
UAC_FORMAT_TYPE_I == 0
UAC_FORMAT_TYPE_II == 1
UAC_FORMAT_TYPE_III == 2

\* The format tables, by name.
FormatTable(name) ==
    CASE name = "audio_data_format_type_i" -> audio_data_format_type_i
      [] name = "audio_data_format_type_ii" -> audio_data_format_type_ii
      [] name = "audio_data_format_type_iii" -> audio_data_format_type_iii
      [] OTHER -> <<>>

\* What reading a table slot at or past the table's length can give: the C
\* text leaves it undefined.  A build either prints whatever follows the
\* table in memory or faults in printf.
UndefinedRead == { "<garbage>", "<fault>" }

\* table[index] (index counted from 0, as in C); past is what the build
\* gives for a slot at or past the table's length.
ReadTable(table, index, past) ==
    IF index < ARRAY_LEN(table) THEN table[index + 1] ELSE past

\* One printf call: the format, the width given for %*s, the string arguments.
Printf(fmt, width, args) == [fmt |-> fmt, width |-> width, args |-> args]

\* A bmAttributes function that takes the qualifier from bit 1, not bit 2.
desc_snowflake_dump_uac2_clk_src_bmattr_bit1(value, indent) ==
    Printf(" %s clock %s\n", 0,
           << uac2_clk_src_bmattr[(value % 4) + 1],
              IF (value \div 2) % 2 = 1 THEN uac3_clk_src_bmattr[3 + 1] ELSE "" >>)

\* desc_snowflake_dump_uac2_clk_src_bmattr: the one printf it makes.
desc_snowflake_dump_uac2_clk_src_bmattr(value, indent) ==
    Printf(" %s clock %s\n", 0,
           << uac2_clk_src_bmattr[(value % 4) + 1],
              IF (value \div 4) % 2 = 1 THEN uac3_clk_src_bmattr[3 + 1] ELSE "" >>)

\* A first definition that compares with < where the source has <=.
desc_snowflake_dump_uac1_as_interface_wformattag_generic_strict(value) ==
    IF value < (UAC_FORMAT_TYPE_I * 4096) + ARRAY_LEN(audio_data_format_type_i)
    THEN [table |-> "audio_data_format_type_i", index |-> value]
    ELSE IF /\ value >= UAC_FORMAT_TYPE_II * 4096
            /\ value < (UAC_FORMAT_TYPE_II * 4096)
                          + ARRAY_LEN(audio_data_format_type_ii)
    THEN [table |-> "audio_data_format_type_ii", index |-> value % 4096]
    ELSE IF /\ value >= UAC_FORMAT_TYPE_III * 4096
            /\ value < (UAC_FORMAT_TYPE_III * 4096)
                          + ARRAY_LEN(audio_data_format_type_iii)
    THEN [table |-> "audio_data_format_type_iii", index |-> value % 4096]
    ELSE [table |-> NULL, index |-> 0]

\* The table slot the first definition of
\* desc_snowflake_dump_uac1_as_interface_wformattag reads for format_string
\* (table NULL: no slot, format_string stays "undefined").
desc_snowflake_dump_uac1_as_interface_wformattag_generic(value) ==
    IF value <= (UAC_FORMAT_TYPE_I * 4096) + ARRAY_LEN(audio_data_format_type_i)
    THEN [table |-> "audio_data_format_type_i", index |-> value]
    ELSE IF /\ value >= UAC_FORMAT_TYPE_II * 4096
            /\ value <= (UAC_FORMAT_TYPE_II * 4096)
                          + ARRAY_LEN(audio_data_format_type_ii)
    THEN [table |-> "audio_data_format_type_ii", index |-> value % 4096]
    ELSE IF /\ value >= UAC_FORMAT_TYPE_III * 4096
            /\ value <= (UAC_FORMAT_TYPE_III * 4096)
                          + ARRAY_LEN(audio_data_format_type_iii)
    THEN [table |-> "audio_data_format_type_iii", index |-> value % 4096]
    ELSE [table |-> NULL, index |-> 0]

\* A wFormatTag function that looks every value up in the type I table.
desc_snowflake_dump_uac1_as_interface_wformattag_type_i_only(value) ==
    IF value % 4096 <= 5
    THEN [table |-> "audio_data_format_type_i", index |-> value % 4096]
    ELSE [table |-> NULL, index |-> 0]

\* The table slot the second definition of
\* desc_snowflake_dump_uac1_as_interface_wformattag reads for format_string.
desc_snowflake_dump_uac1_as_interface_wformattag_literal(value) ==
    IF value <= 5
    THEN [table |-> "audio_data_format_type_i", index |-> value]
    ELSE IF value >= 4096 /\ value <= 4098
    THEN [table |-> "audio_data_format_type_ii", index |-> value % 4096]
    ELSE IF value >= 8192 /\ value <= 8198
    THEN [table |-> "audio_data_format_type_iii", index |-> value % 4096]
    ELSE [table |-> NULL, index |-> 0]

\* The slot read by the definition the name is bound to.
wformattag_slot(def, value) ==
    IF def = "generic"
    THEN desc_snowflake_dump_uac1_as_interface_wformattag_generic(value)
    ELSE desc_snowflake_dump_uac1_as_interface_wformattag_literal(value)

\* format_string when printf(" %s\n", format_string) runs.
wformattag_format_string(slot, past) ==
    IF slot.table = NULL THEN "undefined"
    ELSE ReadTable(FormatTable(slot.table), slot.index, past)

\* The next i in the loop of desc_snowflake_dump_uac2_as_interface_bmformats
\* with (value >> i) & 0x1 set, from i on; 5 when the loop ends.
RECURSIVE bmformats_next(_, _)
bmformats_next(value, i) ==
    IF i >= 5 THEN 5
    ELSE IF Bit(value, i) = 1 THEN i ELSE bmformats_next(value, i + 1)

\* A bmFormats function that takes the label at index i, not i + 1.
desc_snowflake_dump_uac2_as_interface_bmformats_index_i(value, indent, i) ==
    IF i < 0 THEN Printf("\n", 0, <<>>)
    ELSE Printf("%*s%s\n", indent * 2, << "", audio_data_format_type_i[i + 1] >>)

\* desc_snowflake_dump_uac2_as_interface_bmformats: the printf it makes at
\* loop position i (i = -1: the printf("\n") before the loop).
desc_snowflake_dump_uac2_as_interface_bmformats(value, indent, i) ==
    IF i < 0 THEN Printf("\n", 0, <<>>)
    ELSE Printf("%*s%s\n", indent * 2, << "", audio_data_format_type_i[(i + 1) + 1] >>)

(* ------------------- the field decoder (section 4.2) ------------------ *)

\* Decode calls: 1 and 2.
Calls == { 1, 2 }

VARIABLES
    mode,        \* how the caller runs the calls: "sequential" (one after the
                 \* other, the single-threaded program), "concurrent" (each on
                 \* its own thread) or "direct" (a snowflake function called
                 \* on a value, without a descriptor)
    kind,        \* per call: the registry array it was given
    gen,         \* per call: the protocol generation, 0..2
    buf,         \* per call: the descriptor bytes
    cnt,         \* per call: the repetition count of an array whose schema
                 \* entry names no length field
    indent,      \* per call: the indent depth
    status,      \* per call: "off", "idle", "running", "custom", "ok",
                 \* "underrun", "unsupported", "direct", "returned", and
                 \* "fault" once the process has died
    desc,        \* per call: the schema lookup returned, NULL before and without
    fi,          \* per call: position of the current field in the schema
    rep,         \* per call: repetitions of the current field already decoded
    cursor,      \* per call: bytes of buf consumed
    ctx,         \* per call: Decode Context record, name -> decoded value
    rendered,    \* per call: rendering built so far
    out,         \* per call: the rendering handed to the caller
    spans,       \* per call: the byte range every decoded repetition read
    snow,        \* per call: the running snowflake function, its value and
                 \* its loop position
    printed,     \* per call: the printf calls it has made, in order
    stdout,      \* the process's standard output: every printf call made
    reads,       \* the format-table slots read by the wFormatTag function
    wformattag_def,  \* the definition the name
                     \* desc_snowflake_dump_uac1_as_interface_wformattag denotes
    undefined_read   \* what a read past the end of a format table gives in
                     \* this build of the program

vars == << mode, kind, gen, buf, cnt, indent, status, desc, fi, rep, cursor,
           ctx, rendered, out, spans, snow, printed, stdout, reads,
           wformattag_def, undefined_read >>

inputs == << mode, kind, gen, buf, cnt, indent, wformattag_def, undefined_read >>

NoSnow == [fn |-> NULL, value |-> 0, i |-> 0]

Final == { "off", "ok", "underrun", "unsupported", "returned" }

\* Unsigned little-endian integer of the w bytes of b after offset off.
RECURSIVE get_n_bytes(_, _, _)
get_n_bytes(b, off, w) ==
    IF w = 0 THEN 0 ELSE b[off + 1] + 256 * get_n_bytes(b, off + 1, w - 1)

\* The value recorded last under a name in the Decode Context (0 when absent).
RECURSIVE ctx_value(_, _)
ctx_value(c, name) ==
    IF c = <<>> THEN 0
    ELSE IF c[Len(c)].field = name THEN c[Len(c)].value
    ELSE ctx_value(SubSeq(c, 1, Len(c) - 1), name)

\* Step 1: the effective byte width of a field.
effective_byte_width(f, c) ==
    IF f.size_field # NULL THEN ctx_value(c, f.size_field) ELSE f.size

\* Step 2: the repetition count of a field; fixed is the count of an array
\* that names no length field.
resolved_count(f, c, fixed) ==
    IF ~f.array THEN 1
    ELSE IF f.length_field1 = NULL THEN fixed
    ELSE IF f.bits /\ f.length_field2 # NULL
    THEN ctx_value(c, f.length_field1) * ctx_value(c, f.length_field2)
    ELSE ctx_value(c, f.length_field1)

\* Entries of a NULL-terminated table before its terminator.
RECURSIVE populated(_)
populated(t) ==
    IF t = <<>> \/ Head(t) = NULL THEN 0 ELSE 1 + populated(Tail(t))

\* BITMAP_FROM_TABLE: the labels of the set bits i .. count-1 that have one.
RECURSIVE bitmap_labels(_, _, _, _)
bitmap_labels(strings, count, v, i) ==
    IF i >= count THEN <<>>
    ELSE (IF Bit(v, i) = 1 /\ strings[i + 1] # NULL
          THEN << << strings[i + 1], "" >> >> ELSE <<>>)
         \o bitmap_labels(strings, count, v, i + 1)

\* CONTROL_BITS_1: the names of the controls i .. whose bit is set.
RECURSIVE bmcontrol1_labels(_, _, _)
bmcontrol1_labels(names, v, i) ==
    IF i >= populated(names) THEN <<>>
    ELSE (IF Bit(v, i) = 1 THEN << << names[i + 1], "" >> >> ELSE <<>>)
         \o bmcontrol1_labels(names, v, i + 1)

\* CONTROL_BITS_2: the access level a 2-bit group stands for.
bmcontrol2_access(g) ==
    CASE g = 0 -> "not present"
      [] g = 1 -> "read-only"
      [] g = 2 -> "reserved/invalid"
      [] g = 3 -> "read-write"

\* CONTROL_BITS_2: every control i .. with the access level of its group.
RECURSIVE bmcontrol2_labels(_, _, _)
bmcontrol2_labels(names, v, i) ==
    IF i >= populated(names) THEN <<>>
    ELSE << << names[i + 1], bmcontrol2_access((v \div (4 ^ i)) % 4) >> >>
         \o bmcontrol2_labels(names, v, i + 1)

\* Step 4: the rendering of a decoded value by the field's kind.
render(f, v) ==
    CASE f.type = "DESC_BCD" ->
             [aux |-> << v \div 256, v % 256 >>, labels |-> <<>>]
      [] f.type = "DESC_NUMBER_POSTFIX" ->
             [aux |-> <<>>, labels |-> << << f.number_postfix, "" >> >>]
      [] f.type = "DESC_NUMBER_STRINGS" ->
             [aux |-> <<>>,
              labels |-> << << IF v < populated(f.number_strings)
                               THEN f.number_strings[v + 1] ELSE "undefined",
                               "" >> >>]
      [] f.type = "DESC_BITMAP_STRINGS" ->
             [aux |-> <<>>,
              labels |-> bitmap_labels(f.bitmap_strings.strings,
                                       f.bitmap_strings.count, v, 0)]
      [] f.type = "DESC_BMCONTROL_1" ->
             [aux |-> <<>>, labels |-> bmcontrol1_labels(f.bmcontrol, v, 0)]
      [] f.type = "DESC_BMCONTROL_2" ->
             [aux |-> <<>>, labels |-> bmcontrol2_labels(f.bmcontrol, v, 0)]
      [] OTHER -> [aux |-> <<>>, labels |-> <<>>]

\* The current field of a call.
field_of(c) == DescOf(desc[c])[fi[c]]

\* Steps 5 and 6 gone wrong: the value is put in front of the record, not
\* after the values decoded before it.
complete_out_of_order(c, f, v, from, to) ==
    /\ ctx' = [ctx EXCEPT ![c] = << [field |-> f.field, value |-> v] >> \o @]
    /\ rendered' = [rendered EXCEPT ![c] =
                      Append(@, [field |-> f.field, rep |-> rep[c], value |-> v,
                                 text |-> render(f, v)])]
    /\ spans' = [spans EXCEPT ![c] =
                   Append(@, [field |-> f.field, rep |-> rep[c],
                              from |-> from, to |-> to])]
    /\ IF rep[c] + 1 >= resolved_count(f, ctx[c], cnt[c])
       THEN fi' = [fi EXCEPT ![c] = @ + 1] /\ rep' = [rep EXCEPT ![c] = 0]
       ELSE fi' = fi /\ rep' = [rep EXCEPT ![c] = @ + 1]

\* Steps 5 and 6 for one repetition with value v that read bytes from .. to:
\* record the value, append the rendering, move to the next repetition or field.
complete(c, f, v, from, to) ==
    /\ ctx' = [ctx EXCEPT ![c] = Append(@, [field |-> f.field, value |-> v])]
    /\ rendered' = [rendered EXCEPT ![c] =
                      Append(@, [field |-> f.field, rep |-> rep[c], value |-> v,
                                 text |-> render(f, v)])]
    /\ spans' = [spans EXCEPT ![c] =
                   Append(@, [field |-> f.field, rep |-> rep[c],
                              from |-> from, to |-> to])]
    /\ IF rep[c] + 1 >= resolved_count(f, ctx[c], cnt[c])
       THEN fi' = [fi EXCEPT ![c] = @ + 1] /\ rep' = [rep EXCEPT ![c] = 0]
       ELSE fi' = fi /\ rep' = [rep EXCEPT ![c] = @ + 1]

\* The caller looks the schema up and starts the decode, or gets "unsupported".
Lookup(c) ==
    /\ status[c] = "idle"
    /\ \A d \in Calls : status[d] # "fault"
    /\ mode = "sequential" => \A d \in Calls : d < c => status[d] \in Final
    /\ desc' = [desc EXCEPT ![c] = lookup(kind[c], gen[c])]
    /\ status' = [status EXCEPT ![c] =
                    IF lookup(kind[c], gen[c]) = NULL THEN "unsupported"
                    ELSE "running"]
    /\ UNCHANGED << inputs, fi, rep, cursor, ctx, rendered, out, spans, snow,
                    printed, stdout, reads >>

\* An array of no repetitions is passed over.
SkipEmptyArray(c) ==
    /\ status[c] = "running"
    /\ field_of(c).field # NULL
    /\ resolved_count(field_of(c), ctx[c], cnt[c]) = 0
    /\ fi' = [fi EXCEPT ![c] = @ + 1]
    /\ UNCHANGED << inputs, status, desc, rep, cursor, ctx, rendered, out,
                    spans, snow, printed, stdout, reads >>

\* Steps 1 to 6 for the next repetition of the current field: read its bytes
\* or fail with BufferUnderrun; a custom field hands the value to its
\* snowflake function.
DecodeField(c) ==
    /\ status[c] = "running"
    /\ field_of(c).field # NULL
    /\ resolved_count(field_of(c), ctx[c], cnt[c]) > 0
    /\ LET f == field_of(c)
           w == effective_byte_width(f, ctx[c])
           v == get_n_bytes(buf[c], cursor[c], w)
       IN  IF cursor[c] + w > Len(buf[c])
           THEN /\ status' = [status EXCEPT ![c] = "underrun"]
                /\ rendered' = [rendered EXCEPT ![c] = <<>>]
                /\ UNCHANGED << fi, rep, cursor, ctx, spans, snow >>
           ELSE /\ cursor' = [cursor EXCEPT ![c] = @ + w]
                /\ IF f.type = "DESC_SNOWFLAKE"
                   THEN /\ status' = [status EXCEPT ![c] = "custom"]
                        /\ snow' = [snow EXCEPT ![c] =
                                      [fn |-> f.snowflake, value |-> v, i |-> -1]]
                        /\ UNCHANGED << fi, rep, ctx, rendered, spans >>
                   ELSE /\ complete(c, f, v, cursor[c], cursor[c] + w)
                        /\ UNCHANGED << status, snow >>
    /\ UNCHANGED << inputs, desc, out, printed, stdout, reads >>

\* printf: one write to the process's stdout.
printf(c, chunk) ==
    /\ stdout' = Append(stdout, chunk)
    /\ printed' = [printed EXCEPT ![c] = Append(@, chunk)]

InSnowflake(c, fn) ==
    /\ status[c] \in { "custom", "direct" }
    /\ snow[c].fn = fn

\* desc_snowflake_dump_uac2_clk_src_bmattr runs: its printf.
DumpUac2ClkSrcBmattr(c) ==
    /\ InSnowflake(c, "desc_snowflake_dump_uac2_clk_src_bmattr")
    /\ snow[c].i = -1
    /\ printf(c, desc_snowflake_dump_uac2_clk_src_bmattr(snow[c].value, indent[c]))
    /\ snow' = [snow EXCEPT ![c].i = 5]
    /\ UNCHANGED << inputs, status, desc, fi, rep, cursor, ctx, rendered, out,
                    spans, reads >>

\* desc_snowflake_dump_uac1_as_interface_wformattag runs: the table read
\* and its printf.
DumpUac1AsInterfaceWformattag(c) ==
    /\ InSnowflake(c, "desc_snowflake_dump_uac1_as_interface_wformattag")
    /\ snow[c].i = -1
    /\ LET slot == wformattag_slot(wformattag_def, snow[c].value)
           s == wformattag_format_string(slot, undefined_read)
       IN  /\ reads' = IF slot.table = NULL THEN reads ELSE Append(reads, slot)
           /\ IF s = "<fault>"
              THEN /\ status' = [d \in Calls |->
                                 IF status[d] \in { "off", "idle" }
                                 THEN status[d] ELSE "fault"]
                   /\ UNCHANGED << printed, stdout >>
              ELSE /\ printf(c, Printf(" %s\n", 0, << s >>))
                   /\ UNCHANGED status
    /\ snow' = [snow EXCEPT ![c].i = 5]
    /\ UNCHANGED << inputs, desc, fi, rep, cursor, ctx, rendered, out, spans >>

\* desc_snowflake_dump_uac2_as_interface_bmformats runs: its next printf.
DumpUac2AsInterfaceBmformats(c) ==
    /\ InSnowflake(c, "desc_snowflake_dump_uac2_as_interface_bmformats")
    /\ LET i == snow[c].i
           n == bmformats_next(snow[c].value, i)
       IN  \/ /\ i = -1
              /\ printf(c, desc_snowflake_dump_uac2_as_interface_bmformats(
                               snow[c].value, indent[c], -1))
              /\ snow' = [snow EXCEPT ![c].i = 0]
              /\ UNCHANGED reads
           \/ /\ i >= 0 /\ n < 5
              /\ printf(c, desc_snowflake_dump_uac2_as_interface_bmformats(
                               snow[c].value, indent[c], n))
              /\ reads' = Append(reads, [table |-> "audio_data_format_type_i",
                                         index |-> n + 1])
              /\ snow' = [snow EXCEPT ![c].i = n + 1]
    /\ UNCHANGED << inputs, status, desc, fi, rep, cursor, ctx, rendered, out,
                    spans >>

\* The running snowflake function has no printf left.
snowflake_done(s) ==
    IF s.fn = "desc_snowflake_dump_uac2_as_interface_bmformats"
    THEN s.i >= 0 /\ bmformats_next(s.value, s.i) = 5
    ELSE s.i = 5

\* The snowflake function returns to the decoder, which completes the field.
SnowflakeReturn(c) ==
    /\ status[c] = "custom"
    /\ snowflake_done(snow[c])
    /\ LET f == field_of(c)
           w == effective_byte_width(f, ctx[c])
       IN  complete(c, f, snow[c].value, cursor[c] - w, cursor[c])
    /\ status' = [status EXCEPT ![c] = "running"]
    /\ snow' = [snow EXCEPT ![c] = NoSnow]
    /\ UNCHANGED << inputs, desc, cursor, out, printed, stdout, reads >>

\* The terminating entry is reached: the rendering goes to the caller.
Finish(c) ==
    /\ status[c] = "running"
    /\ field_of(c).field = NULL
    /\ status' = [status EXCEPT ![c] = "ok"]
    /\ out' = [out EXCEPT ![c] = rendered[c]]
    /\ UNCHANGED << inputs, desc, fi, rep, cursor, ctx, rendered, spans, snow,
                    printed, stdout, reads >>

\* A snowflake function called directly returns to its caller.
DirectReturn(c) ==
    /\ status[c] = "direct"
    /\ snowflake_done(snow[c])
    /\ status' = [status EXCEPT ![c] = "returned"]
    /\ UNCHANGED << inputs, desc, fi, rep, cursor, ctx, rendered, out, spans,
                    snow, printed, stdout, reads >>

(* ------------------------------- inputs ------------------------------- *)

\* A generated descriptor body: n bytes, byte i being (a*i + b) mod ByteMod.
PatternBuffer(a, b, n) == [i \in 1..n |-> (a * i + b) % ByteMod]

PatternBuffers ==
    { PatternBuffer(a, b, n) :
         a \in 0..(ByteMod - 1), b \in 0..(ByteMod - 1), n \in 0..MaxBufLen }

\* The fields of the schema of (k, g); none when there is no schema.
SchemaFields(k, g) ==
    IF lookup(k, g) = NULL THEN {}
    ELSE { DescOf(lookup(k, g))[i] : i \in 1..Len(DescOf(lookup(k, g))) }

OpenArray(f) == f.array /\ f.length_field1 = NULL
UsesIndent(f) == f.snowflake = "desc_snowflake_dump_uac2_as_interface_bmformats"
UsesWformattag(f) == f.snowflake = "desc_snowflake_dump_uac1_as_interface_wformattag"

\* The inputs that make a difference to the decode of (k, g).
FixedCounts(k, g) == IF (\E f \in SchemaFields(k, g) : OpenArray(f)) THEN 0..MaxFixedCount ELSE { 0 }
Indents(k, g) == IF (\E f \in SchemaFields(k, g) : UsesIndent(f)) THEN 0..MaxIndent ELSE { 0 }

\* Descriptor bodies of the specification's scenarios and of the format tags
\* at the edges of the format tables.
SampleBuffers(k, g) ==
    CASE k = "desc_audio_ac_clock_source" /\ g = 1 ->
             { << 1, v, 1, 0, 0 >> : v \in 0..7 }
      [] k = "desc_audio_ac_mixer_unit" /\ g = 1 ->
             { << 1, 2, 1, 2, 3, 3, 0, 0, 0, 0, 1, 0, 1, 0, 1, 0, 0, 0 >> }
      [] k = "desc_audio_ac_feature_unit" /\ g = 0 ->
             { << 1, 1, 2, 3, 0, 0 >> }
      [] k = "desc_audio_as_interface" /\ g = 0 ->
             { << 1, 1, 1, 0 >>, << 1, 1, 2, 32 >>, << 1, 1, 6, 0 >>,
               << 1, 1, 3, 16 >>, << 1, 1, 7, 32 >>, << 1, 1, 7, 0 >> }
      [] k = "desc_audio_as_interface" /\ g = 1 ->
             { << 1, 0, 1, 21, 0, 0, 0, 2, 3, 0, 0, 0, 0 >>,
               << 1, 0, 1, 0, 0, 0, 0, 2, 3, 0, 0, 0, 0 >> }
      [] k = "desc_audio_ac_input_terminal" /\ g = 1 ->
             { << 1, 1, 1, 0, 1, 1, 0, 0, 0, b, 0, 0, 0 >> : b \in { 2, 4, 6, 8, 64 } }
      [] k = "desc_audio_as_isochronous_audio_data_endpoint" /\ g = 0 ->
             { << a, 0, 1, 0 >> : a \in { 7, 120, 128, 255 } }
             \cup { << 0, u, 1, 0 >> : u \in 0..255 }
      [] k = "desc_audio_as_isochronous_audio_data_endpoint" /\ g = 1 ->
             { << a, 1, 0, 1, 0 >> : a \in { 127, 128, 255 } }
             \cup { << 0, m, u, 1, 0 >> : m \in { 27, 228 }, u \in { 2, 3, 255 } }
      [] OTHER -> {}

Buffers(k, g) ==
    PatternBuffers
    \cup UNION { { SubSeq(s, 1, n) : n \in 0..Len(s) } : s \in SampleBuffers(k, g) }



Fresh ==
    /\ desc = [c \in Calls |-> NULL]
    /\ fi = [c \in Calls |-> 1]
    /\ rep = [c \in Calls |-> 0]
    /\ cursor = [c \in Calls |-> 0]
    /\ ctx = [c \in Calls |-> <<>>]
    /\ rendered = [c \in Calls |-> <<>>]
    /\ out = [c \in Calls |-> <<>>]
    /\ spans = [c \in Calls |-> <<>>]
    /\ printed = [c \in Calls |-> <<>>]
    /\ stdout = <<>>
    /\ reads = <<>>

\* The choices of a build that make a difference to the decode of (k, g).
Builds(k, g) ==
    IF (\E f \in SchemaFields(k, g) : UsesWformattag(f))
    THEN { << "literal", "<garbage>" >> }
         \cup { << "generic", u >> : u \in UndefinedRead }
    ELSE { << "literal", "<garbage>" >> }

(* ------------------ one decode call of one descriptor ----------------- *)

Init ==
    /\ mode = "sequential"
    /\ \E k \in Kinds, g \in 0..2 :
         \E b \in Buffers(k, g), n \in FixedCounts(k, g), d \in Indents(k, g),
            bd \in Builds(k, g) :
            /\ kind = [c \in Calls |-> k]
            /\ gen = [c \in Calls |-> g]
            /\ buf = [c \in Calls |-> b]
            /\ cnt = [c \in Calls |-> n]
            /\ indent = [c \in Calls |-> d]
            /\ wformattag_def = bd[1]
            /\ undefined_read = bd[2]
    /\ status = [c \in Calls |-> IF c = 1 THEN "idle" ELSE "off"]
    /\ snow = [c \in Calls |-> NoSnow]
    /\ Fresh

Next ==
    \E c \in Calls :
        \/ Lookup(c)
        \/ SkipEmptyArray(c)
        \/ DecodeField(c)
        \/ DumpUac2ClkSrcBmattr(c)
        \/ DumpUac1AsInterfaceWformattag(c)
        \/ DumpUac2AsInterfaceBmformats(c)
        \/ SnowflakeReturn(c)
        \/ Finish(c)

Spec == Init /\ [][Next]_vars

(* ------- the same descriptor decoded twice, one call after the other --- *)

InitRepeat ==
    /\ mode = "sequential"
    /\ \E k \in Kinds, g \in 0..2 :
         \E b \in Buffers(k, g), n \in FixedCounts(k, g), d \in Indents(k, g),
            bd \in Builds(k, g) :
            /\ kind = [c \in Calls |-> k]
            /\ gen = [c \in Calls |-> g]
            /\ buf = [c \in Calls |-> b]
            /\ cnt = [c \in Calls |-> n]
            /\ indent = [c \in Calls |-> d]
            /\ wformattag_def = bd[1]
            /\ undefined_read = bd[2]
    /\ status = [c \in Calls |-> "idle"]
    /\ snow = [c \in Calls |-> NoSnow]
    /\ Fresh

SpecRepeat == InitRepeat /\ [][Next]_vars

(* ------- the wFormatTag function called on every 16-bit value --------- *)

InitWformattag ==
    /\ mode = "direct"
    /\ kind = [c \in Calls |-> "desc_audio_as_interface"]
    /\ gen = [c \in Calls |-> 0]
    /\ buf = [c \in Calls |-> <<>>]
    /\ cnt = [c \in Calls |-> 0]
    /\ indent = [c \in Calls |-> 0]
    /\ \E bd \in Builds("desc_audio_as_interface", 0) :
          wformattag_def = bd[1] /\ undefined_read = bd[2]
    /\ status = [c \in Calls |-> IF c = 1 THEN "direct" ELSE "off"]
    /\ \E v \in 0..(2 ^ 16 - 1) :
          snow = [c \in Calls |->
                    IF c = 1
                    THEN [fn |-> "desc_snowflake_dump_uac1_as_interface_wformattag",
                          value |-> v, i |-> -1]
                    ELSE NoSnow]
    /\ Fresh

NextWformattag ==
    \E c \in Calls :
        \/ DumpUac1AsInterfaceWformattag(c)
        \/ DirectReturn(c)

SpecWformattag == InitWformattag /\ [][NextWformattag]_vars


(* ====================== properties of the program ===================== *)

\* Position of the field called name in a schema.
FieldIndex(schema, name) ==
    CHOOSE i \in 1..Len(schema) : schema[i].field = name

\* The field called name of call c's schema has been decoded in full.
Decoded(c, name) ==
    /\ status[c] \in { "running", "custom", "ok" }
    /\ \E i \in 1..Len(DescOf(desc[c])) : DescOf(desc[c])[i].field = name
    /\ fi[c] > FieldIndex(DescOf(desc[c]), name)

\* The byte ranges call c read for the field called name.
SpansOf(c, name) == SelectSeq(spans[c], LAMBDA s : s.field = name)

RECURSIVE SumBytes(_)
SumBytes(ss) ==
    IF ss = <<>> THEN 0 ELSE (Head(ss).to - Head(ss).from) + SumBytes(Tail(ss))

\* Bytes call c consumed for the field called name.
Consumed(c, name) == SumBytes(SpansOf(c, name))

\* The renderings call c built for the field called name.
RenderedOf(c, name) == SelectSeq(rendered[c], LAMBDA r : r.field = name)

(* ---------------------------------------------------------------------- *)
(* C1.  For every descriptor kind and every generation 0..2, lookup gives *)
(* no schema exactly for UAC3 (every kind) and for UAC1 with Clock        *)
(* Source, Clock Selector, Clock Multiplier, Sample Rate Converter and    *)
(* Effect Unit; for every other pair it gives that pair's schema; the     *)
(* caller gets "unsupported" exactly when there is no schema, and the     *)
(* lookup leaves cursor, record, rendering and stdout as they were.       *)
(* ---------------------------------------------------------------------- *)
C1_Uac1Only ==
    { "desc_audio_ac_clock_source", "desc_audio_ac_clock_selector",
      "desc_audio_ac_clock_multiplier", "desc_audio_ac_sample_rate_converter",
      "desc_audio_ac_effect_unit" }

C1_SchemaOfPair(k, g) ==
    CASE k = "desc_audio_ac_header" ->
             << "desc_audio_1_ac_header", "desc_audio_2_ac_header" >>[g + 1]
      [] k = "desc_audio_ac_effect_unit" ->
             << NULL, "desc_audio_2_ac_effect_unit" >>[g + 1]
      [] k = "desc_audio_ac_input_terminal" ->
             << "desc_audio_1_ac_input_terminal",
                "desc_audio_2_ac_input_terminal" >>[g + 1]
      [] k = "desc_audio_ac_output_terminal" ->
             << "desc_audio_1_ac_output_terminal",
                "desc_audio_2_ac_output_terminal" >>[g + 1]
      [] k = "desc_audio_ac_mixer_unit" ->
             << "desc_audio_1_ac_mixer_unit", "desc_audio_2_ac_mixer_unit" >>[g + 1]
      [] k = "desc_audio_ac_selector_unit" ->
             << "desc_audio_1_ac_selector_unit",
                "desc_audio_2_ac_selector_unit" >>[g + 1]
      [] k = "desc_audio_ac_processing_unit" ->
             << "desc_audio_1_ac_processing_unit",
                "desc_audio_2_ac_processing_unit" >>[g + 1]
      [] k = "desc_audio_ac_feature_unit" ->
             << "desc_audio_1_ac_feature_unit",
                "desc_audio_2_ac_feature_unit" >>[g + 1]
      [] k = "desc_audio_ac_extension_unit" ->
             << "desc_audio_1_ac_extension_unit",
                "desc_audio_2_ac_extension_unit" >>[g + 1]
      [] k = "desc_audio_ac_clock_source" ->
             << NULL, "desc_audio_2_ac_clock_source" >>[g + 1]
      [] k = "desc_audio_ac_clock_selector" ->
             << NULL, "desc_audio_2_ac_clock_selector" >>[g + 1]
      [] k = "desc_audio_ac_clock_multiplier" ->
             << NULL, "desc_audio_2_ac_clock_multiplier" >>[g + 1]
      [] k = "desc_audio_ac_sample_rate_converter" ->
             << NULL, "desc_audio_2_ac_sample_rate_converter" >>[g + 1]
      [] k = "desc_audio_as_interface" ->
             << "desc_audio_1_as_interface", "desc_audio_2_as_interface" >>[g + 1]
      [] k = "desc_audio_as_isochronous_audio_data_endpoint" ->
             << "desc_audio_1_as_isochronous_audio_data_endpoint",
                "desc_audio_2_as_isochronous_audio_data_endpoint" >>[g + 1]

C1_LookupUnsupportedOrSchema ==
    \A c \in Calls :
        status[c] \notin { "off", "idle" } =>
            LET absent == gen[c] = 2 \/ (gen[c] = 0 /\ kind[c] \in C1_Uac1Only)
            IN  /\ absent <=> desc[c] = NULL
                /\ absent <=> status[c] = "unsupported"
                /\ ~absent => desc[c] = C1_SchemaOfPair(kind[c], gen[c])
                /\ (status[c] = "unsupported"
                      \/ (status[c] = "running" /\ fi[c] = 1 /\ rep[c] = 0)) =>
                       /\ cursor[c] = 0 /\ ctx[c] = <<>> /\ rendered[c] = <<>>
                       /\ out[c] = <<>> /\ spans[c] = <<>> /\ printed[c] = <<>>
                       /\ stdout = <<>>

\* A UAC1 Clock Source lookup has answered "unsupported".
C1_Witness ==
    \E c \in Calls :
        /\ status[c] = "unsupported"
        /\ kind[c] = "desc_audio_ac_clock_source" /\ gen[c] = 0

(* ---------------------------------------------------------------------- *)
(* C2.  The cursor never exceeds the buffer length, and a decode that     *)
(* ends in BufferUnderrun leaves the rendered output and everything else  *)
(* that can be observed as it was before the call: nothing handed to the  *)
(* caller, nothing written to stdout.                                     *)
(* ---------------------------------------------------------------------- *)
C2_UnderrunLeavesNoTrace ==
    \A c \in Calls :
        /\ cursor[c] <= Len(buf[c])
        /\ status[c] = "underrun" =>
              out[c] = <<>> /\ printed[c] = <<>> /\ stdout = <<>>

\* The part of C2 the decoder keeps: the cursor stays inside the buffer and
\* an underrun hands nothing to the caller.
C2_CursorInsideBuffer ==
    \A c \in Calls :
        /\ cursor[c] <= Len(buf[c])
        /\ \A i \in 1..Len(spans[c]) : spans[c][i].to <= Len(buf[c])
        /\ status[c] = "underrun" => out[c] = <<>> /\ rendered[c] = <<>>

(* ---------------------------------------------------------------------- *)
(* C3.  A decoded field has moved the cursor by byte_width times          *)
(* resolved_count: a scalar of literal width w by w, an array by w for    *)
(* every repetition, and an array in bits mode by w for each of           *)
(* length_field1's value times length_field2's value repetitions.  Stated *)
(* for every field of every schema, and with the numbers written out for  *)
(* the UAC1 Mixer Unit.                                                   *)
(* ---------------------------------------------------------------------- *)
C3_ConsumedIsWidthTimesCount ==
    \A c \in Calls :
        /\ \A i \in 1..Len(DescOf(desc[c])) :
              LET f == DescOf(desc[c])[i]
              IN  (f.field # NULL /\ Decoded(c, f.field)) =>
                     /\ Consumed(c, f.field) =
                           effective_byte_width(f, ctx[c])
                             * resolved_count(f, ctx[c], cnt[c])
                     /\ Len(SpansOf(c, f.field)) = resolved_count(f, ctx[c], cnt[c])
                     /\ ~f.array /\ f.size_field = NULL =>
                           Consumed(c, f.field) = f.size
        /\ desc[c] = "desc_audio_1_ac_mixer_unit" =>
              /\ Decoded(c, "bNrInPins") => Consumed(c, "bNrInPins") = 1
              /\ Decoded(c, "baSourceID") =>
                    Consumed(c, "baSourceID") = ctx_value(ctx[c], "bNrInPins")
              /\ Decoded(c, "wChannelConfig") => Consumed(c, "wChannelConfig") = 2
              /\ Decoded(c, "bmControls") =>
                    /\ Len(SpansOf(c, "bmControls")) =
                          ctx_value(ctx[c], "bNrInPins")
                            * ctx_value(ctx[c], "bNrChannels")
                    /\ Consumed(c, "bmControls") =
                          1 * ctx_value(ctx[c], "bNrInPins")
                            * ctx_value(ctx[c], "bNrChannels")

\* A UAC1 Mixer Unit with 2 input pins and 3 channels has been decoded to
\* its end: 6 bytes of bmControls.
C3_Witness ==
    \E c \in Calls :
        /\ status[c] = "ok" /\ desc[c] = "desc_audio_1_ac_mixer_unit"
        /\ ctx_value(ctx[c], "bNrInPins") = 2
        /\ ctx_value(ctx[c], "bNrChannels") = 3
        /\ Consumed(c, "bmControls") = 6

(* ---------------------------------------------------------------------- *)
(* C4.  For every 16-bit value the wFormatTag function reads the format   *)
(* table it selects only inside the table (type I 0..5, type II 0..2,     *)
(* type III 0..6) or reads no table and prints "undefined".               *)
(* ---------------------------------------------------------------------- *)
C4_ReadsInsideTable ==
    /\ \A i \in 1..Len(reads) :
          /\ reads[i].index < ARRAY_LEN(FormatTable(reads[i].table))
          /\ reads[i].table = "audio_data_format_type_i" => reads[i].index <= 5
          /\ reads[i].table = "audio_data_format_type_ii" => reads[i].index <= 2
          /\ reads[i].table = "audio_data_format_type_iii" => reads[i].index <= 6
    /\ \A c \in Calls :
          (status[c] = "returned" /\ reads = <<>>) =>
              printed[c] = << Printf(" %s\n", 0, << "undefined" >>) >>

(* ---------------------------------------------------------------------- *)
(* C5 (as amended).  Decoding a UAC2 Clock Source whose bmAttributes byte *)
(* is 0x03 prints "Internal programmable" before "clock" and no           *)
(* qualifier; in general bits 0-1 of the byte select the source type      *)
(* (0 External, 1 Internal fixed, 2 Internal variable, 3 Internal         *)
(* programmable) and bit 2 alone decides whether "(synchronized to SOF)"  *)
(* follows.                                                               *)
(* ---------------------------------------------------------------------- *)
C5_SourceType(n) ==
    CASE n = 0 -> "External"
      [] n = 1 -> "Internal fixed"
      [] n = 2 -> "Internal variable"
      [] n = 3 -> "Internal programmable"

\* Call c decodes a UAC2 Clock Source and its bmAttributes function has printed.
C5_Printed(c) ==
    /\ desc[c] = "desc_audio_2_ac_clock_source"
    /\ printed[c] # <<>>

C5_ClkSrcBmattr ==
    \A c \in Calls :
        C5_Printed(c) =>
            LET v == buf[c][2]
            IN  /\ printed[c] =
                     << Printf(" %s clock %s\n", 0,
                               << C5_SourceType(v % 4),
                                  IF (v \div 4) % 2 = 1
                                  THEN "(synchronized to SOF)" ELSE "" >>) >>
                /\ v = 3 => printed[c][1].args = << "Internal programmable", "" >>

\* bmAttributes = 0x03 has been printed, and so has a byte with bit 2 set.
C5_Witness ==
    \E c \in Calls : C5_Printed(c) /\ buf[c][2] = 3

\* C5 as stated: bmAttributes = 0x03 prints "Internal variable".
C5_AsStated ==
    \A c \in Calls :
        (C5_Printed(c) /\ buf[c][2] = 3) =>
            printed[c][1].args = << "Internal variable", "" >>

(* ---------------------------------------------------------------------- *)
(* C6.  The wFormatTag function reads the value as 0xTNNN: 0x0001 prints  *)
(* "PCM", 0x2002 prints "IEC1937_MPEG-1_Layer1", and every value in       *)
(* 0..5, 0x1000..0x1002, 0x2000..0x2006 prints the entry at index         *)
(* (value & 0xfff) of the table its prefix selects.                       *)
(* ---------------------------------------------------------------------- *)
C6_TableOfPrefix(t) ==
    CASE t = 0 -> audio_data_format_type_i
      [] t = 1 -> audio_data_format_type_ii
      [] t = 2 -> audio_data_format_type_iii

\* Call c ran the wFormatTag function on v and the function has printed.
C6_Printed(c, v) ==
    /\ status[c] \in { "direct", "returned" }
    /\ snow[c].fn = "desc_snowflake_dump_uac1_as_interface_wformattag"
    /\ snow[c].value = v
    /\ snow[c].i = 5

C6_WformattagPrefixAndIndex ==
    \A c \in Calls :
        \A v \in (0..5) \cup (4096..4098) \cup (8192..8198) :
            C6_Printed(c, v) =>
                /\ printed[c] =
                      << Printf(" %s\n", 0,
                                << C6_TableOfPrefix(v \div 4096)[(v % 4096) + 1] >>) >>
                /\ v = 1 => printed[c][1].args = << "PCM" >>
                /\ v = 8194 => printed[c][1].args = << "IEC1937_MPEG-1_Layer1" >>

\* wFormatTag = 0x2002 has been printed by the second definition.
C6_Witness ==
    \E c \in Calls :
        /\ C6_Printed(c, 8194) /\ wformattag_def = "literal"
        /\ printed[c] # <<>>

(* ---------------------------------------------------------------------- *)
(* C7.  Decoding a UAC2 Mixer Unit with bNrInPins = 2 and bNrChannels = 3 *)
(* resolves the repetition count of bmMixerControls to 6 and consumes     *)
(* exactly 6 bytes for it, one per repetition, whatever the descriptor's  *)
(* other fields hold.                                                     *)
(* ---------------------------------------------------------------------- *)
\* Call c decodes a UAC2 Mixer Unit of 2 input pins and 3 channels and is
\* past bmMixerControls.
C7_Case(c) ==
    /\ desc[c] = "desc_audio_2_ac_mixer_unit"
    /\ Decoded(c, "bmMixerControls")
    /\ ctx_value(ctx[c], "bNrInPins") = 2
    /\ ctx_value(ctx[c], "bNrChannels") = 3

C7_MixerControlsSixBytes ==
    \A c \in Calls :
        C7_Case(c) =>
            LET f == DescOf(desc[c])[FieldIndex(DescOf(desc[c]), "bmMixerControls")]
                ss == SpansOf(c, "bmMixerControls")
            IN  /\ resolved_count(f, ctx[c], cnt[c]) = 6
                /\ Len(ss) = 6
                /\ \A i \in 1..Len(ss) : ss[i].to - ss[i].from = 1 /\ ss[i].rep = i - 1
                /\ Consumed(c, "bmMixerControls") = 6

C7_Witness ==
    \E c \in Calls : C7_Case(c) /\ status[c] = "ok"

(* ---------------------------------------------------------------------- *)
(* C8.  Decoding a UAC1 Feature Unit with bControlSize = 2 and controls   *)
(* bytes 0x03, 0x00 takes the width of bmaControls from bControlSize,     *)
(* consumes exactly 2 bytes for bmaControls as one repetition of width 2, *)
(* and renders exactly "Mute" and "Volume" as present.                    *)
(* ---------------------------------------------------------------------- *)
\* Call c decodes a UAC1 Feature Unit with one group of controls of
\* bControlSize = 2 holding 0x03, 0x00 and is past bmaControls.
C8_Case(c) ==
    /\ desc[c] = "desc_audio_1_ac_feature_unit"
    /\ cnt[c] = 1
    /\ Decoded(c, "bmaControls")
    /\ ctx_value(ctx[c], "bControlSize") = 2
    /\ Len(buf[c]) >= 5 /\ buf[c][4] = 3 /\ buf[c][5] = 0

C8_FeatureUnitControls ==
    \A c \in Calls :
        C8_Case(c) =>
            /\ SpansOf(c, "bmaControls") =
                  << [field |-> "bmaControls", rep |-> 0, from |-> 3, to |-> 5] >>
            /\ Consumed(c, "bmaControls") = 2
            /\ Len(RenderedOf(c, "bmaControls")) = 1
            /\ RenderedOf(c, "bmaControls")[1].value = 3
            /\ RenderedOf(c, "bmaControls")[1].text.labels =
                  << << "Mute", "" >>, << "Volume", "" >> >>

C8_Witness ==
    \E c \in Calls : C8_Case(c) /\ status[c] = "ok"

(* ---------------------------------------------------------------------- *)
(* C9.  A decode goes through the schema in order in one forward pass:    *)
(* the cursor never decreases, the byte ranges read follow one another    *)
(* from offset 0 without overlap, the name-to-value record only grows by  *)
(* appending each decoded value once, record and rendering list the       *)
(* fields in schema order, and two decodes of the same schema and buffer  *)
(* end alike.                                                             *)
(* ---------------------------------------------------------------------- *)
\* Entries i and i+1 of a history follow schema order: the next repetition
\* of the same field, or the first repetition of a later field.
C9_InOrder(c, h, i) ==
    LET a == FieldIndex(DescOf(desc[c]), h[i].field)
        b == FieldIndex(DescOf(desc[c]), h[i + 1].field)
    IN  \/ a = b /\ h[i + 1].rep = h[i].rep + 1
        \/ a < b /\ h[i + 1].rep = 0

C9_OnePass(c) ==
    /\ Len(ctx[c]) = Len(spans[c])
    /\ \A i \in 1..Len(spans[c]) :
          /\ spans[c][i].from <= spans[c][i].to
          /\ spans[c][i].from = IF i = 1 THEN 0 ELSE spans[c][i - 1].to
          /\ ctx[c][i].field = spans[c][i].field
          /\ ctx[c][i].value =
                get_n_bytes(buf[c], spans[c][i].from,
                            spans[c][i].to - spans[c][i].from)
    /\ \A i \in 1..(Len(spans[c]) - 1) : C9_InOrder(c, spans[c], i)
    /\ spans[c] # <<>> => spans[c][Len(spans[c])].to <= cursor[c]
    /\ status[c] \in { "running", "ok" } /\ spans[c] # <<>> =>
          spans[c][Len(spans[c])].to = cursor[c]
    /\ status[c] # "underrun" =>
          /\ Len(rendered[c]) = Len(spans[c])
          /\ \A i \in 1..Len(rendered[c]) :
                /\ rendered[c][i].field = spans[c][i].field
                /\ rendered[c][i].rep = spans[c][i].rep
                /\ rendered[c][i].value = ctx[c][i].value
    /\ status[c] = "ok" => out[c] = rendered[c]

C9_SameTwice ==
    (\A c \in Calls : status[c] \in Final \ { "off" }) =>
        \A c, d \in Calls :
            /\ status[c] = status[d]
            /\ out[c] = out[d]
            /\ printed[c] = printed[d]
            /\ ctx[c] = ctx[d]
            /\ cursor[c] = cursor[d]

C9_Forward(c) ==
    /\ cursor'[c] >= cursor[c]
    /\ Len(ctx'[c]) \in { Len(ctx[c]), Len(ctx[c]) + 1 }
    /\ SubSeq(ctx'[c], 1, Len(ctx[c])) = ctx[c]
    /\ SubSeq(spans'[c], 1, Len(spans[c])) = spans[c]

C9_SchemaOrderSinglePass ==
    /\ [](C9_SameTwice /\ \A c \in Calls : C9_OnePass(c))
    /\ [][\A c \in Calls : C9_Forward(c)]_vars

\* The same Mixer Unit has been decoded twice to its end, array repetitions
\* included.
C9_Witness ==
    /\ \A c \in Calls : status[c] = "ok" /\ Len(spans[c]) >= 8
    /\ desc[1] = "desc_audio_1_ac_mixer_unit"
    /\ out[1] = out[2]

(* ------------------- two decode calls run concurrently ----------------- *)

\* What the two concurrent callers decode: kind, generation, body, fixed
\* count, indent.
ConcurrentInputs ==
    { << "desc_audio_as_interface", 1,
         << 1, 0, 1, 21, 0, 0, 0, 2, 3, 0, 0, 0, 0 >>, 0, 0 >>,
      << "desc_audio_as_interface", 1,
         << 1, 0, 1, 21, 0, 0, 0, 2, 3, 0, 0, 0, 0 >>, 0, 1 >>,
      << "desc_audio_as_interface", 1, << 1, 0, 1, 5, 0, 0, 0 >>, 0, 0 >>,
      << "desc_audio_ac_clock_source", 1, << 1, 3, 1, 0, 0 >>, 0, 0 >>,
      << "desc_audio_ac_clock_source", 1, << 1, 7, 1 >>, 0, 0 >>,
      << "desc_audio_ac_clock_source", 0, << 1, 3, 1, 0, 0 >>, 0, 0 >>,
      << "desc_audio_as_interface", 0, << 1, 1, 1, 0 >>, 0, 0 >>,
      << "desc_audio_as_interface", 0, << 1, 1, 6, 0 >>, 0, 0 >>,
      << "desc_audio_ac_feature_unit", 0, << 1, 1, 2, 3, 0, 0 >>, 1, 0 >>,
      << "desc_audio_ac_feature_unit", 0, << 1, 1, 2, 0 >>, 0, 0 >> }

InitConcurrent ==
    /\ mode = "concurrent"
    /\ \E in \in [Calls -> ConcurrentInputs] :
          /\ kind = [c \in Calls |-> in[c][1]]
          /\ gen = [c \in Calls |-> in[c][2]]
          /\ buf = [c \in Calls |-> in[c][3]]
          /\ cnt = [c \in Calls |-> in[c][4]]
          /\ indent = [c \in Calls |-> in[c][5]]
    /\ \E bd \in Builds("desc_audio_as_interface", 0) :
          wformattag_def = bd[1] /\ undefined_read = bd[2]
    /\ status = [c \in Calls |-> "idle"]
    /\ snow = [c \in Calls |-> NoSnow]
    /\ Fresh

SpecConcurrent == InitConcurrent /\ [][Next]_vars

(* ---------------------------------------------------------------------- *)
(* C10.  Two decode calls running concurrently share no mutable state:    *)
(* under every interleaving of their steps, custom decoders included,     *)
(* each call's result and rendered output are what the call produces      *)
(* alone - what stdout holds when both have ended is the output of one    *)
(* call followed by the output of the other.                              *)
(* ---------------------------------------------------------------------- *)
C10_CallsDoNotInterfere ==
    (\A c \in Calls : status[c] \in Final) =>
        stdout \in { printed[1] \o printed[2], printed[2] \o printed[1] }

(* ---------------------------------------------------------------------- *)
(* C11.  In every schema of the registry field names are unique, and      *)
(* every size_field, length_field1 or length_field2 names exactly one     *)
(* field that stands strictly earlier in the same schema; so whenever the *)
(* decoder is at a field, the values that field refers to are already in  *)
(* the Decode Context.                                                    *)
(* ---------------------------------------------------------------------- *)
\* The names a field refers to.
C11_References(f) ==
    { f.size_field, f.length_field1, f.length_field2 } \ { NULL }

\* The positions before the terminating entry of a schema.
C11_Fields(schema) == { i \in 1..Len(schema) : schema[i].field # NULL }

C11_WellFormed(schema) ==
    /\ \A i, j \in C11_Fields(schema) :
          schema[i].field = schema[j].field => i = j
    /\ \A i \in C11_Fields(schema) :
          \A r \in C11_References(schema[i]) :
              /\ Cardinality({ j \in C11_Fields(schema) : schema[j].field = r }) = 1
              /\ \E j \in 1..(i - 1) : schema[j].field = r

\* The names recorded in a Decode Context.
C11_Recorded(c) == { ctx[c][i].field : i \in 1..Len(ctx[c]) }

C11_ReferencesAreEarlier ==
    \A c \in Calls :
        status[c] \in { "running", "custom", "ok", "underrun" } =>
            /\ C11_WellFormed(DescOf(desc[c]))
            /\ status[c] \in { "running", "custom" } =>
                  C11_References(field_of(c)) \subseteq C11_Recorded(c)

\* A UAC1 Processing Unit is being decoded past bmControls, whose count
\* came from the bControlSize decoded before it.
C11_Witness ==
    \E c \in Calls :
        /\ desc[c] = "desc_audio_1_ac_processing_unit"
        /\ Decoded(c, "bmControls")
        /\ ctx_value(ctx[c], "bControlSize") >= 1
        /\ Len(SpansOf(c, "bmControls")) = ctx_value(ctx[c], "bControlSize")

(* ---------------------------------------------------------------------- *)
(* C12.  For every BITMAP_FROM_TABLE field and every value, a label is    *)
(* emitted for bit i exactly when bit i is set and the field's label      *)
(* table has an entry at index i - for every entry of the table, the last *)
(* one of uac2_channel_names ("Back Right of Center (BRC)", bit 26)       *)
(* included; gaps are left out, and no index read lies past the table.    *)
(* ---------------------------------------------------------------------- *)
\* The labels of the set bits i .. n-1 of v that have an entry in table.
RECURSIVE C12_Labels(_, _, _, _)
C12_Labels(table, v, i, n) ==
    IF i >= n THEN <<>>
    ELSE (IF Bit(v, i) = 1 /\ i < ARRAY_LEN(table) /\ table[i + 1] # NULL
          THEN << << table[i + 1], "" >> >> ELSE <<>>)
         \o C12_Labels(table, v, i + 1, n)

\* The bits of a field of the given byte width that a descriptor body of the
\* model can set: bit 31 stays clear in every body.
C12_Bits(size) == IF 8 * size > 31 THEN 31 ELSE 8 * size

\* The schema entry of the field called name in call c's schema.
C12_FieldNamed(c, name) == DescOf(desc[c])[FieldIndex(DescOf(desc[c]), name)]

C12_LabelForEverySetBitWithEntry ==
    \A c \in Calls :
        \A k \in 1..Len(rendered[c]) :
            LET r == rendered[c][k]
                f == C12_FieldNamed(c, r.field)
            IN  f.type = "DESC_BITMAP_STRINGS" =>
                   /\ f.bitmap_strings.count <= ARRAY_LEN(f.bitmap_strings.strings)
                   /\ r.text.labels =
                         C12_Labels(f.bitmap_strings.strings, r.value, 0,
                                    C12_Bits(f.size))

\* The part of C12 the schemas keep: a label for bit i exactly when bit i is
\* set, i is below the field's count and the table has an entry at i; no
\* index at or past the table's length is read.
C12_LabelForEveryCountedBit ==
    \A c \in Calls :
        \A k \in 1..Len(rendered[c]) :
            LET r == rendered[c][k]
                f == C12_FieldNamed(c, r.field)
            IN  f.type = "DESC_BITMAP_STRINGS" =>
                   /\ f.bitmap_strings.count <= ARRAY_LEN(f.bitmap_strings.strings)
                   /\ r.text.labels =
                         C12_Labels(f.bitmap_strings.strings, r.value, 0,
                                    f.bitmap_strings.count)

(* ---------------------------------------------------------------------- *)
(* C13.  For every CONTROL_BITS_2 field and every value, control i of the *)
(* field's table is rendered from bits 2i and 2i+1 alone: 00 not present, *)
(* 01 read-only, 10 reserved/invalid, 11 read-write.  A UAC2 Clock Source *)
(* bmControls of 0x01 shows "Clock Frequency" read-only and "Clock        *)
(* Validity" not present, and nothing past the table's terminating entry  *)
(* is named.                                                              *)
(* ---------------------------------------------------------------------- *)
C13_Access(low, high) ==
    CASE high = 0 /\ low = 0 -> "not present"
      [] high = 0 /\ low = 1 -> "read-only"
      [] high = 1 /\ low = 0 -> "reserved/invalid"
      [] high = 1 /\ low = 1 -> "read-write"

\* The entries of a table before its first NULL.
C13_Controls(names) ==
    { i \in 1..Len(names) : \A j \in 1..i : names[j] # NULL }

C13_TwoBitsPerControl ==
    \A c \in Calls :
        \A k \in 1..Len(rendered[c]) :
            LET r == rendered[c][k]
                f == DescOf(desc[c])[FieldIndex(DescOf(desc[c]), r.field)]
                l == r.text.labels
            IN  f.type = "DESC_BMCONTROL_2" =>
                   /\ \E i \in 1..Len(f.bmcontrol) : f.bmcontrol[i] = NULL
                   /\ Len(l) = Cardinality(C13_Controls(f.bmcontrol))
                   /\ \A i \in 1..Len(l) :
                         /\ l[i][1] = f.bmcontrol[i]
                         /\ l[i][1] # NULL
                         /\ l[i][2] = C13_Access(Bit(r.value, 2 * (i - 1)),
                                                 Bit(r.value, 2 * (i - 1) + 1))
                   /\ (desc[c] = "desc_audio_2_ac_clock_source"
                         /\ r.field = "bmControls" /\ r.value = 1) =>
                         l = << << "Clock Frequency", "read-only" >>,
                                << "Clock Validity", "not present" >> >>

\* A UAC2 Clock Source with bmControls = 0x01 has had its bmControls
\* rendered.
C13_Witness ==
    \E c \in Calls :
        /\ desc[c] = "desc_audio_2_ac_clock_source"
        /\ \E k \in 1..Len(rendered[c]) :
              rendered[c][k].field = "bmControls" /\ rendered[c][k].value = 1

(* ---------------------------------------------------------------------- *)
(* C14.  For every NUMBER_FROM_TABLE field and every value, the value is  *)
(* the index into the label table and a value outside the populated range *)
(* renders "undefined": bLockDelayUnits 0, 1, 2 render "Undefined",       *)
(* "Milliseconds", "Decoded PCM samples", and every value 3..255 renders  *)
(* "undefined".                                                           *)
(* ---------------------------------------------------------------------- *)
C14_LockDelayUnits(v) ==
    CASE v = 0 -> "Undefined"
      [] v = 1 -> "Milliseconds"
      [] v = 2 -> "Decoded PCM samples"
      [] OTHER -> "undefined"

\* Call c has rendered bLockDelayUnits with value v.
C14_Rendered(c, v) ==
    \E k \in 1..Len(rendered[c]) :
        rendered[c][k].field = "bLockDelayUnits" /\ rendered[c][k].value = v

C14_NumberFromTable ==
    \A c \in Calls :
        \A k \in 1..Len(rendered[c]) :
            LET r == rendered[c][k]
                f == DescOf(desc[c])[FieldIndex(DescOf(desc[c]), r.field)]
                t == f.number_strings
                inside == /\ r.value < Len(t)
                          /\ \A j \in 1..(r.value + 1) : t[j] # NULL
            IN  f.type = "DESC_NUMBER_STRINGS" =>
                   /\ r.value \in 0..(2 ^ (8 * f.size) - 1)
                   /\ r.text.labels =
                         << << IF inside THEN t[r.value + 1] ELSE "undefined", "" >> >>
                   /\ r.field = "bLockDelayUnits" =>
                         r.text.labels = << << C14_LockDelayUnits(r.value), "" >> >>

\* A UAC1 endpoint's bLockDelayUnits has been rendered for the largest byte,
\* 255.
C14_Witness ==
    \E c \in Calls :
        /\ desc[c] = "desc_audio_1_as_isochronous_audio_data_endpoint"
        /\ C14_Rendered(c, 255)
        /\ rendered[c][2].text.labels = << << "undefined", "" >> >>

(* ---------------------------------------------------------------------- *)
(* C15.  The two definitions of the wFormatTag function print the same    *)
(* string for every 16-bit value except 6, 0x1003 and 0x2007, the values  *)
(* equal to a table length: there the second definition (bounds 5,        *)
(* 0x1002, 0x2006) prints "undefined" and the first (bounds from the      *)
(* table lengths) does not.                                               *)
(* ---------------------------------------------------------------------- *)
\* 6, 0x1003, 0x2007.
C15_Boundary == { 6, 4099, 8199 }

\* What the first and the second definition hand to printf for value v in
\* this build.
C15_Generic(v) ==
    wformattag_format_string(
        desc_snowflake_dump_uac1_as_interface_wformattag_generic(v), undefined_read)

C15_Literal(v) ==
    wformattag_format_string(
        desc_snowflake_dump_uac1_as_interface_wformattag_literal(v), undefined_read)

\* Call c has run the wFormatTag function to its printf.
C15_Ran(c) ==
    /\ snow[c].fn = "desc_snowflake_dump_uac1_as_interface_wformattag"
    /\ snow[c].i = 5

C15_DefinitionsAgreeOffBoundary ==
    \A c \in Calls :
        C15_Ran(c) =>
            LET v == snow[c].value
                mine == IF wformattag_def = "generic"
                        THEN C15_Generic(v) ELSE C15_Literal(v)
            IN  /\ mine # "<fault>" =>
                      printed[c] = << Printf(" %s\n", 0, << mine >>) >>
                /\ mine = "<fault>" => printed[c] = <<>>
                /\ v \notin C15_Boundary => C15_Generic(v) = C15_Literal(v)
                /\ v \in C15_Boundary =>
                      /\ C15_Literal(v) = "undefined"
                      /\ C15_Generic(v) # "undefined"

\* The first definition has run on 0x1003, a value equal to a table length.
C15_Witness ==
    \E c \in Calls :
        /\ C15_Ran(c) /\ snow[c].value = 4099
        /\ wformattag_def = "generic"
        /\ reads = << [table |-> "audio_data_format_type_ii", index |-> 3] >>

(* ------- the bmFormats function called on values of all shapes --------- *)

\* What the bits 5..30 of the values hold (value \div 32).
HighBits == { 0, 1, 33554432, 67108863 }

InitBmformats ==
    /\ mode = "direct"
    /\ kind = [c \in Calls |-> "desc_audio_as_interface"]
    /\ gen = [c \in Calls |-> 1]
    /\ buf = [c \in Calls |-> <<>>]
    /\ cnt = [c \in Calls |-> 0]
    /\ \E d \in 0..MaxIndent : indent = [c \in Calls |-> d]
    /\ wformattag_def = "literal" /\ undefined_read = "<garbage>"
    /\ status = [c \in Calls |-> IF c = 1 THEN "direct" ELSE "off"]
    /\ \E low \in 0..31, h \in HighBits :
          snow = [c \in Calls |->
                    IF c = 1
                    THEN [fn |-> "desc_snowflake_dump_uac2_as_interface_bmformats",
                          value |-> low + 32 * h, i |-> -1]
                    ELSE NoSnow]
    /\ Fresh

NextBmformats ==
    \E c \in Calls :
        \/ DumpUac2AsInterfaceBmformats(c)
        \/ DirectReturn(c)

SpecBmformats == InitBmformats /\ [][NextBmformats]_vars

(* ---------------------------------------------------------------------- *)
(* C16.  For every bmFormats value the bmFormats function prints, in      *)
(* ascending bit order and one per line, the type I label at index i+1    *)
(* for exactly the set bits i in 0..4 (bit 0 "PCM" ... bit 4 "MULAW");    *)
(* every index it reads lies in 1..5 of the 6-entry table, index 0        *)
(* ("TYPE_I_UNDEFINED") is never printed, and the bits from 5 up never    *)
(* change what is printed.                                                *)
(* ---------------------------------------------------------------------- *)
C16_Label(i) ==
    CASE i = 0 -> "PCM"
      [] i = 1 -> "PCM8"
      [] i = 2 -> "IEEE_FLOAT"
      [] i = 3 -> "ALAW"
      [] i = 4 -> "MULAW"

\* The lines for the set bits i .. 4 of the five low bits.
RECURSIVE C16_Lines(_, _, _)
C16_Lines(low, d, i) ==
    IF i > 4 THEN <<>>
    ELSE (IF Bit(low, i) = 1
          THEN << Printf("%*s%s\n", d * 2, << "", C16_Label(i) >>) >> ELSE <<>>)
         \o C16_Lines(low, d, i + 1)

\* The table slots read for the set bits i .. 4 of the five low bits.
RECURSIVE C16_Slots(_, _)
C16_Slots(low, i) ==
    IF i > 4 THEN <<>>
    ELSE (IF Bit(low, i) = 1
          THEN << [table |-> "audio_data_format_type_i", index |-> i + 1] >>
          ELSE <<>>)
         \o C16_Slots(low, i + 1)

\* s is the beginning of t.
C16_Prefix(s, t) == Len(s) <= Len(t) /\ SubSeq(t, 1, Len(s)) = s

\* Call c runs, or has run, the bmFormats function called directly.
C16_Running(c) ==
    /\ status[c] \in { "direct", "returned" }
    /\ snow[c].fn = "desc_snowflake_dump_uac2_as_interface_bmformats"

C16_BmformatsLowFiveBits ==
    \A c \in Calls :
        C16_Running(c) =>
            LET low == snow[c].value % 32
                all == << Printf("\n", 0, <<>>) >> \o C16_Lines(low, indent[c], 0)
            IN  /\ C16_Prefix(printed[c], all)
                /\ C16_Prefix(reads, C16_Slots(low, 0))
                /\ Len(reads) = IF printed[c] = <<>> THEN 0 ELSE Len(printed[c]) - 1
                /\ \A k \in 1..Len(reads) :
                      /\ reads[k].index \in 1..5
                      /\ reads[k].index < ARRAY_LEN(audio_data_format_type_i)
                /\ \A k \in 1..Len(printed[c]) :
                      \A a \in 1..Len(printed[c][k].args) :
                          printed[c][k].args[a] # "TYPE_I_UNDEFINED"
                /\ status[c] = "returned" =>
                      printed[c] = all /\ reads = C16_Slots(low, 0)

\* The function has returned from a value with the five low bits and bits
\* above them set: five labels printed.
C16_Witness ==
    \E c \in Calls :
        /\ C16_Running(c) /\ status[c] = "returned"
        /\ snow[c].value % 32 = 31 /\ snow[c].value > 31
        /\ Len(printed[c]) = 6

=============================================================================
